---- MODULE Spec2Model ----
(***************************************************************************)
(* Model of the skills-tree core: graph build and relative layout          *)
(* (src/lib/skill-tree-data.ts), transitive drag propagation               *)
(* (src/lib/drag-utils.ts), the position overlay kept by the SkillsTree    *)
(* component, obstacle-avoiding path routing (src/lib/path-routing.ts),    *)
(* search and filter visibility (src/lib/filter-utils.ts), the connectors  *)
(* the SkillsTree component renders between nodes, the request queue       *)
(* (src/lib/request-queue.ts), the memory cache (src/lib/cache.ts) and the *)
(* persistent cache over localStorage (src/lib/persistent-cache.ts).       *)
(*                                                                         *)
(* Coordinates are integers.  Every coordinate fed to the router is a      *)
(* multiple of 10, so the bend points 0.6*dy, 0.5*dx, 0.3*dy, 0.7*dx of    *)
(* the code are integers and are computed exactly.                         *)
(***************************************************************************)
EXTENDS Integers, Sequences, FiniteSets, TLC

VARIABLES
    exercises,      \* input of createSkillTreeData: Exercise[]
    paths,          \* input of createSkillTreeData: Path[]
    built,          \* outcome of createSkillTreeData(exercises, paths)
    rebuilt,        \* outcome of a second createSkillTreeData(exercises, paths)
    currentNodes,   \* input of calculateDraggedPositions: SkillTreeNode[]
    dragged,        \* outcome of calculateDraggedPositions
    settings,       \* SkillsTree: settings state
    customPositions, \* SkillsTree: overlay of dragged positions, keyed by slug
    routeInput,     \* arguments of calculateAvoidancePath
    routed,         \* outcome of calculateAvoidancePath
    filters,        \* SkillsTree: filter state
    searchTerm,     \* SkillsTree: search term
    visible,        \* outcome of calculateExerciseVisibility
    queue,          \* RequestQueue.queue: the requests waiting, oldest first
    isProcessing,   \* RequestQueue.isProcessing
    elapsed,        \* Date.now() - RequestQueue.lastRequestTime, up to minDelay
    loops,          \* the activations of processQueue and where each one stands
    fnState,        \* each request function: not started, executing, settled
    promise,        \* the promise enqueue returned for each request
    started,        \* the requests whose function was called, in call order
    enqueued,       \* the requests handed to enqueue, in call order
    now,            \* Date.now() as the caches read it (ms since page load)
    memCache,       \* MemoryCache.cache: key -> entry
    fetchCalls,     \* the calls of cachedFetch and where each one stands
    localStorage,   \* window.localStorage: key -> stored text
    cleanupResult   \* what the last PersistentCache.cleanup() returned

\* the component, the build, the drag, the router and the filters
appVars == <<exercises, paths, built, rebuilt, currentNodes, dragged, settings,
             customPositions, routeInput, routed, filters, searchTerm, visible>>

\* the request queue
queueVars == <<queue, isProcessing, elapsed, loops, fnState, promise, started,
               enqueued>>

\* the memory cache and the clock
cacheVars == <<now, memCache, fetchCalls>>

\* the persistent cache
storageVars == <<localStorage, cleanupResult>>

ioVars == <<queueVars, cacheVars, storageVars>>

vars == <<appVars, ioVars>>

(***************************************************************************)
(* Bounds of the model                                                     *)
(***************************************************************************)
MaxDeps == 2        \* longest dependency list of one exercise
MaxEdges == 2       \* dependency entries in the whole input
StackLimit == 6     \* call-stack frames before the engine throws RangeError

Slugs == <<"a", "b", "c">>      \* slug of the i-th exercise (unique primary key)
MissingSlug == "x"              \* a slug that names no exercise
AllSlugs == {Slugs[i] : i \in 1..Len(Slugs)} \cup {MissingSlug}

\* an optional field: Undefined when absent, Some(v) when it holds v
Undefined == <<>>
Some(v) == <<v>>
ValueOf(field) == field[1]

Pt(px, py) == [x |-> px, y |-> py]
Origin == Pt(0, 0)

Range(s) == {s[i] : i \in 1..Len(s)}

SeqsUpTo(S, n) == UNION {[1..k -> S] : k \in 0..n}

(***************************************************************************)
(* createSkillTreeData: first pass                                         *)
(***************************************************************************)
\* exercise.dependencies || []
DependenciesOf(exercise) ==
    IF exercise.dependencies = Undefined THEN <<>>
    ELSE ValueOf(exercise.dependencies)

\* the path created when no paths are available at all
DefaultPath ==
    [slug |-> "default", name |-> "Default",
     description |-> "Default learning path", color |-> "#0969da"]

\* variant: an exercise without a matching path gets the synthesized default
\* although paths are available
FallbackPath_AlwaysDefault(allPaths) == DefaultPath

\* else if (paths.length > 0) path = paths[0]; else path = { slug: 'default', ... }
FallbackPath(allPaths) == IF Len(allPaths) > 0 THEN allPaths[1] ELSE DefaultPath

FirstPass(exs, allPaths) ==
    LET \* the node created for one exercise by exercises.map(...)
        NewNode(exercise) ==
            LET \* the path of one exercise (slugs of the model are non-empty strings, so
                \* pathSlug is truthy exactly when it is present)
                ResolvePath ==
                    LET PathMapGet(slug) ==
                            allPaths[CHOOSE k \in 1..Len(allPaths) :
                                        /\ allPaths[k].slug = slug
                                        /\ \A l \in (k + 1)..Len(allPaths) : allPaths[l].slug # slug]
                    IN
                    LET \* pathMap = new Map(paths.map(path => [path.slug, path])): has and get; a
                        \* Map built from an array keeps the last entry of a key
                        PathMapHas(slug) == \E k \in 1..Len(allPaths) : allPaths[k].slug = slug
                    IN
                    IF exercise.pathSlug # Undefined /\ PathMapHas(ValueOf(exercise.pathSlug))
                    THEN PathMapGet(ValueOf(exercise.pathSlug))
                    ELSE FallbackPath(allPaths)
            IN
            [exercise |-> exercise,
             path |-> ResolvePath,
             position |-> Origin,
             dependencies |-> DependenciesOf(exercise),
             dependents |-> <<>>]
    IN
    [i \in 1..Len(exs) |-> NewNode(exs[i])]

\* nodes.find(n => n.exercise.slug === slug): index of the first match, 0 if none
FindIndex(nodes, slug) ==
    IF \E i \in 1..Len(nodes) : nodes[i].exercise.slug = slug
    THEN CHOOSE i \in 1..Len(nodes) :
            /\ nodes[i].exercise.slug = slug
            /\ \A j \in 1..(i - 1) : nodes[j].exercise.slug # slug
    ELSE 0

(***************************************************************************)
(* createSkillTreeData: dependents (reverse dependencies)                  *)
(***************************************************************************)
\* variant: pushes the dependency's own slug instead of the dependent's
PushDependent_WrongSlug(nodes, depIdx, nodeSlug) ==
    IF depIdx = 0 THEN nodes
    ELSE [nodes EXCEPT ![depIdx].dependents = Append(@, nodes[depIdx].exercise.slug)]

\* depNode.dependents.push(node.exercise.slug), when depNode was found
PushDependent(nodes, depIdx, nodeSlug) ==
    IF depIdx = 0 THEN nodes
    ELSE [nodes EXCEPT ![depIdx].dependents = Append(@, nodeSlug)]

\* node.dependencies.forEach(depSlug => ...) from the j-th dependency on
RECURSIVE AddDependentsOf(_, _, _)
AddDependentsOf(nodes, i, j) ==
    IF j > Len(nodes[i].dependencies) THEN nodes
    ELSE AddDependentsOf(
            PushDependent(nodes, FindIndex(nodes, nodes[i].dependencies[j]),
                          nodes[i].exercise.slug),
            i, j + 1)

\* nodes.forEach(node => ...) from the i-th node on
RECURSIVE CalculateDependents(_, _)
CalculateDependents(nodes, i) ==
    IF i > Len(nodes) THEN nodes
    ELSE CalculateDependents(AddDependentsOf(nodes, i, 1), i + 1)

(***************************************************************************)
(* createSkillTreeData: positions relative to dependencies                 *)
(***************************************************************************)
\* variant: a slug without a node is looked up as the first node
NodeMapGet_FirstWhenMissing(nodes, slug) ==
    IF \E i \in 1..Len(nodes) : nodes[i].exercise.slug = slug
    THEN CHOOSE i \in 1..Len(nodes) :
            /\ nodes[i].exercise.slug = slug
            /\ \A j \in (i + 1)..Len(nodes) : nodes[j].exercise.slug # slug
    ELSE 1

\* nodeMap.get(slug): a Map built from an array keeps the last entry of a
\* key; 0 stands for undefined
NodeMapGet(nodes, slug) ==
    IF \E i \in 1..Len(nodes) : nodes[i].exercise.slug = slug
    THEN CHOOSE i \in 1..Len(nodes) :
            /\ nodes[i].exercise.slug = slug
            /\ \A j \in (i + 1)..Len(nodes) : nodes[j].exercise.slug # slug
    ELSE 0

\* variant: a root without a position gets the dependent default offset
RootPosition_DependentDefault(exercise) ==
    IF exercise.position = Undefined THEN Pt(0, 50) ELSE ValueOf(exercise.position)

\* node.exercise.position || { x: 0, y: 0 }
RootPosition(exercise) ==
    IF exercise.position = Undefined THEN Pt(0, 0) ELSE ValueOf(exercise.position)

\* variant: a dependent without a position gets the root default
RelativePosition_RootDefault(exercise) ==
    IF exercise.position = Undefined THEN Pt(0, 0) ELSE ValueOf(exercise.position)

\* node.exercise.position || { x: 0, y: 50 }
RelativePosition(exercise) ==
    IF exercise.position = Undefined THEN Pt(0, 50) ELSE ValueOf(exercise.position)

\* let lastDepPosition = { x: 0, y: 0 }
InitialLastDepPosition == Pt(0, 0)

\* the loop that picks the "last" dependency, from the j-th dependency on;
\* last is the current lastDepPosition
RECURSIVE FindLastDepPosition(_, _, _, _)
FindLastDepPosition(nodes, deps, j, last) ==
    IF j > Len(deps) THEN last
    ELSE LET d == NodeMapGet(nodes, deps[j])
         IN IF d # 0 /\ nodes[d].position.x + nodes[d].position.y > last.x + last.y
            THEN FindLastDepPosition(nodes, deps, j + 1, nodes[d].position)
            ELSE FindLastDepPosition(nodes, deps, j + 1, last)

\* variant: the computed position is also written back into the exercise
SetPosition_WriteBack(node, p) ==
    [node EXCEPT !.position = p, !.exercise.position = Some(p)]

\* node.position = ...: the node gets a position, its exercise is untouched
SetPosition(node, p) == [node EXCEPT !.position = p]

\* calculatePosition(nodes[i]) entered as the depth-th frame of the call
\* stack.  st = [nodes, positioned, err]; err is set when the recursion
\* exceeds the call stack (RangeError), and then propagates to the caller.
RECURSIVE calculatePosition(_, _, _)
RECURSIVE EnsureDependencies(_, _, _, _)

calculatePosition(i, st, depth) ==
    LET \* node.position = lastDepPosition + relativePosition
        PlaceRelative(last, rel) == Pt(last.x + rel.x, last.y + rel.y)
    IN
    LET node == st.nodes[i]
        slug == node.exercise.slug
    IN  IF st.err THEN st
        ELSE IF depth > StackLimit THEN [st EXCEPT !.err = TRUE]
        ELSE IF slug \in st.positioned THEN st
        ELSE IF Len(node.dependencies) = 0
        THEN [st EXCEPT !.nodes[i] = SetPosition(@, RootPosition(node.exercise)),
                        !.positioned = @ \cup {slug}]
        ELSE LET st1 == EnsureDependencies(i, 1, st, depth)
             IN  IF st1.err THEN st1
                 ELSE [st1 EXCEPT
                        !.nodes[i] =
                            SetPosition(@,
                                PlaceRelative(
                                    FindLastDepPosition(st1.nodes, node.dependencies, 1,
                                                        InitialLastDepPosition),
                                    RelativePosition(node.exercise))),
                        !.positioned = @ \cup {slug}]

\* variant: the dependencies are not positioned first
EnsureDependencies_Skip(i, j, st, depth) == st

\* for (const depSlug of node.dependencies) { ... calculatePosition(depNode) }
EnsureDependencies(i, j, st, depth) ==
    LET deps == st.nodes[i].dependencies
    IN  IF st.err \/ j > Len(deps) THEN st
        ELSE LET d == NodeMapGet(st.nodes, deps[j])
             IN  IF d # 0 /\ deps[j] \notin st.positioned
                 THEN EnsureDependencies(i, j + 1,
                                         calculatePosition(d, st, depth + 1), depth)
                 ELSE EnsureDependencies(i, j + 1, st, depth)

\* nodes.forEach(calculatePosition) from the i-th node on
RECURSIVE CalculatePositions(_, _)
CalculatePositions(st, i) ==
    IF st.err \/ i > Len(st.nodes) THEN st
    ELSE CalculatePositions(calculatePosition(i, st, 1), i + 1)

\* createSkillTreeData(exercises, paths): the returned node array, or
\* RangeError when the recursion overflows the call stack
createSkillTreeData(exs, allPaths) ==
    LET nodes == CalculateDependents(FirstPass(exs, allPaths), 1)
        st == CalculatePositions([nodes |-> nodes, positioned |-> {}, err |-> FALSE], 1)
    IN  IF st.err
        THEN [status |-> "RangeError", nodes |-> <<>>]
        ELSE [status |-> "returned", nodes |-> st.nodes]

(***************************************************************************)
(* drag-utils: getAllTransitiveDependents                                  *)
(***************************************************************************)
\* variant: the visited guard is missing
AlreadyVisited_Never(visited, targetSlug) == FALSE

\* visited.has(targetSlug)
AlreadyVisited(visited, targetSlug) == targetSlug \in visited

\* variant: follows the edges the wrong way round (the nodes whose
\* dependents name the target, that is the target's dependencies)
DirectDependents_Reversed(allNodes, targetSlug) ==
    SelectSeq([i \in 1..Len(allNodes) |-> allNodes[i]],
              LAMBDA node : targetSlug \in Range(node.dependents))

\* allNodes.filter(node => node.dependencies.includes(targetSlug))
DirectDependents(allNodes, targetSlug) ==
    SelectSeq([i \in 1..Len(allNodes) |-> allNodes[i]],
              LAMBDA node : targetSlug \in Range(node.dependencies))

\* .map(node => node.exercise.slug)
SlugsOfNodes(nodes) == [i \in 1..Len(nodes) |-> nodes[i].exercise.slug]

\* variant: the slugs replace the collected ones instead of joining them
AddAll_Replace(ordered, slugs, k) == slugs

\* Set.add on a set kept in insertion order
RECURSIVE AddAll(_, _, _)
AddAll(ordered, slugs, k) ==
    IF k > Len(slugs) THEN ordered
    ELSE AddAll(IF slugs[k] \in Range(ordered) THEN ordered
                ELSE Append(ordered, slugs[k]),
                slugs, k + 1)

\* getAllTransitiveDependents(targetSlug, allNodes, visited) entered as the
\* depth-th frame.  r = [result, visited, calls, err]: result is the returned
\* array, visited the shared set after the call, calls the number of
\* expansions (runs of the body past the guard) so far.
RECURSIVE getAllTransitiveDependents(_, _, _, _)
RECURSIVE CollectTransitive(_, _, _, _, _)

getAllTransitiveDependents(targetSlug, allNodes, r, depth) ==
    IF r.err THEN r
    ELSE IF depth > StackLimit THEN [r EXCEPT !.err = TRUE]
    ELSE IF AlreadyVisited(r.visited, targetSlug) THEN [r EXCEPT !.result = <<>>]
    ELSE LET directDependents == SlugsOfNodes(DirectDependents(allNodes, targetSlug))
         IN  CollectTransitive(directDependents, 1, allNodes,
                [r EXCEPT !.result = AddAll(<<>>, directDependents, 1),
                          !.visited = @ \cup {targetSlug},
                          !.calls = @ + 1],
                depth)

\* directDependents.forEach(depSlug => ...) from the k-th one on;
\* r.result is allDependents
CollectTransitive(directDependents, k, allNodes, r, depth) ==
    IF r.err \/ k > Len(directDependents) THEN r
    ELSE LET sub == getAllTransitiveDependents(directDependents[k], allNodes,
                                               r, depth + 1)
         IN  CollectTransitive(directDependents, k + 1, allNodes,
                [sub EXCEPT !.result = AddAll(r.result, sub.result, 1)],
                depth)

(***************************************************************************)
(* drag-utils: calculateDraggedPositions                                   *)
(***************************************************************************)
\* variant: the missing node is dereferenced (TypeError)
NotFoundResult_Throws(call) == [call EXCEPT !.status = "TypeError"]

\* if (!draggedNode) return {}
NotFoundResult(call) == call

\* variant: the new position is taken as the offset
DragOffset_Absolute(newPosition, position) == newPosition

\* offset = newPosition - draggedNode.position
DragOffset(newPosition, position) ==
    Pt(newPosition.x - position.x, newPosition.y - position.y)

EmptyRecord == [slug \in {} |-> Origin]

calculateDraggedPositions(draggedNodeSlug, newPosition, nodes) ==
    LET \* the record built by newPositions[dragged] = newPosition followed by the
        \* forEach over the dependent nodes (a later assignment to a key wins)
        NewPositions(offset, dependentNodes) ==
            [slug \in {draggedNodeSlug} \cup Range(SlugsOfNodes(dependentNodes)) |->
                IF \E k \in 1..Len(dependentNodes) : dependentNodes[k].exercise.slug = slug
                THEN LET k == CHOOSE k \in 1..Len(dependentNodes) :
                                /\ dependentNodes[k].exercise.slug = slug
                                /\ \A l \in (k + 1)..Len(dependentNodes) :
                                      dependentNodes[l].exercise.slug # slug
                     IN  Pt(dependentNodes[k].position.x + offset.x,
                            dependentNodes[k].position.y + offset.y)
                ELSE newPosition]
    IN
    LET d == FindIndex(nodes, draggedNodeSlug)
        call == [status |-> "returned", draggedNodeSlug |-> draggedNodeSlug,
                 newPosition |-> newPosition, calls |-> 0,
                 dependentSlugs |-> <<>>, newPositions |-> EmptyRecord]
    IN  IF d = 0 THEN NotFoundResult(call)
        ELSE LET r == getAllTransitiveDependents(draggedNodeSlug, nodes,
                        [result |-> <<>>, visited |-> {}, calls |-> 0, err |-> FALSE], 1)
                 dependentNodes ==
                    SelectSeq([i \in 1..Len(nodes) |-> nodes[i]],
                              LAMBDA node : node.exercise.slug \in Range(r.result))
             IN  IF r.err THEN [call EXCEPT !.status = "RangeError"]
                 ELSE [call EXCEPT
                        !.calls = r.calls,
                        !.dependentSlugs = r.result,
                        !.newPositions =
                            NewPositions(DragOffset(newPosition, nodes[d].position),
                                         dependentNodes)]

(***************************************************************************)
(* path-routing: collision test                                            *)
(***************************************************************************)
\* Math.sqrt(d) <= v and Math.sqrt(d) >= v for an integer d with
\* 0 <= d < 2^31, decided without computing the root; a v beyond SquareLimit
\* has a square beyond every such d
SquareLimit == 46340

SqrtAtMost(d, v) == v >= 0 /\ (v > SquareLimit \/ d <= v * v)
pathIntersectsObstacles(path, obstacles, clearance) ==
    LET \* b = 2 * (fx * dx + fy * dy) is even, so discriminant = b * b - 4 * a * c is
        \* four times halfB^2 - a * c, which equals a * radius^2 - cross^2 with
        \* cross = fx * dy - fy * dx (Lagrange's identity).  The quarter is computed
        \* in that form because its terms stay within 32 bits; it is negative when
        \* cross exceeds SquareLimit.
        lineIntersectsCircle(lineStart, lineEnd, circle) ==
            LET \* (t1 >= 0 && t1 <= 1) || (t2 >= 0 && t2 <= 1) with
                \* t1 = (-b - sqrt(discriminant)) / (2a), t2 = (-b + sqrt(discriminant)) / (2a),
                \* a > 0, written with halfB = b / 2 and quarter = discriminant / 4:
                \* t1 = (-halfB - sqrt(quarter)) / a, t2 = (-halfB + sqrt(quarter)) / a
                RootInSegment(a, halfB, quarter) ==
                    LET SqrtAtLeast(d, v) == v <= 0 \/ (v <= SquareLimit /\ d >= v * v)
                    IN
                    \/ SqrtAtMost(quarter, -halfB) /\ SqrtAtLeast(quarter, -halfB - a)
                    \/ SqrtAtLeast(quarter, halfB) /\ SqrtAtMost(quarter, a + halfB)
            IN
            LET radius == circle.radius + clearance
                dx == lineEnd.x - lineStart.x
                dy == lineEnd.y - lineStart.y
                fx == lineStart.x - circle.x
                fy == lineStart.y - circle.y
                a == dx * dx + dy * dy
                halfB == fx * dx + fy * dy
                cross == fx * dy - fy * dx
                discriminantNegative ==
                    \/ cross > SquareLimit \/ cross < -SquareLimit
                    \/ a * radius * radius - cross * cross < 0
            IN  IF dx = 0 /\ dy = 0
                THEN SqrtAtMost(fx * fx + fy * fy, radius)
                ELSE IF discriminantNegative THEN FALSE
                ELSE RootInSegment(a, halfB, a * radius * radius - cross * cross)
    IN
    IF Len(path) < 2 \/ Len(obstacles) = 0 THEN FALSE
    ELSE \E i \in 1..(Len(path) - 1) :
            \E o \in 1..Len(obstacles) :
                lineIntersectsCircle(path[i], path[i + 1], obstacles[o])

(***************************************************************************)
(* path-routing: candidate routes                                          *)
(***************************************************************************)
\* v * tenths / 10 for the bend proportions 0.6, 0.5, 0.3 and 0.7; exact on
\* the multiples of 10 the inputs are drawn from
Scale(v, tenths) == (v * tenths) \div 10

\* variant: the second bend is left out, the route runs from the first bend
\* straight to the end point
LRoute_CutCorner(start, end, down, across) ==
    LET dx == end.x - start.x
        dy == end.y - start.y
    IN  IF dy > 0
        THEN <<start, Pt(start.x, start.y + Scale(dy, down)), end>>
        ELSE <<start, Pt(start.x + Scale(dx, across), start.y), end>>

\* an L-route that bends after the proportion down/10 of dy when moving
\* downward (dy > 0) and after across/10 of dx otherwise
LRoute(start, end, down, across) ==
    LET dx == end.x - start.x
        dy == end.y - start.y
    IN  IF dy > 0
        THEN <<start, Pt(start.x, start.y + Scale(dy, down)),
               Pt(end.x, start.y + Scale(dy, down)), end>>
        ELSE <<start, Pt(start.x + Scale(dx, across), start.y),
               Pt(start.x + Scale(dx, across), end.y), end>>

\* variant: a level connector (dy = 0) takes the downward branch
getDirectPath_LevelGoesDown(start, end) ==
    IF end.y = start.y
    THEN <<start, Pt(start.x, start.y), Pt(end.x, start.y), end>>
    ELSE LRoute(start, end, 6, 5)

\* getDirectPath(start, end): midY = start.y + dy * 0.6, midX = start.x + dx * 0.5
getDirectPath(start, end) == LRoute(start, end, 6, 5)

\* variant: vertical-first is tried before horizontal-first
routingStrategies_VerticalFirst(start, end) ==
    <<LRoute(start, end, 6, 5),
      <<start, Pt(start.x, end.y), end>>,
      <<start, Pt(end.x, start.y), end>>,
      LRoute(start, end, 3, 7)>>

routingStrategies(start, end) ==
    <<LRoute(start, end, 6, 5),
      <<start, Pt(end.x, start.y), end>>,
      <<start, Pt(start.x, end.y), end>>,
      LRoute(start, end, 3, 7)>>

\* for (const strategy of routingStrategies) from the k-th strategy on
RECURSIVE FirstFreeStrategy(_, _, _, _, _)
FirstFreeStrategy(strategies, k, fallback, obstacles, clearance) ==
    IF k > Len(strategies) THEN fallback
    ELSE IF ~pathIntersectsObstacles(strategies[k], obstacles, clearance)
         THEN strategies[k]
         ELSE FirstFreeStrategy(strategies, k + 1, fallback, obstacles, clearance)

findPathAroundObstacles(start, end, obstacles, clearance) ==
    FirstFreeStrategy(routingStrategies(start, end), 1, getDirectPath(start, end),
                      obstacles, clearance)

Clearance == 15

DefaultNodeRadius == 30
ObstacleRadius == 30

\* variant: the route ends at the centre of the target node
calculateAvoidancePath_ToCentre(from, to, obstacles, nodeRadius) ==
    LET startPoint == Pt(from.x, from.y + nodeRadius)
        endPoint == Pt(to.x, to.y)
    IN  IF \/ Len(obstacles) = 0
           \/ ~pathIntersectsObstacles(getDirectPath(startPoint, endPoint),
                                       obstacles, Clearance)
        THEN getDirectPath(startPoint, endPoint)
        ELSE findPathAroundObstacles(startPoint, endPoint, obstacles, Clearance)

calculateAvoidancePath(from, to, obstacles, nodeRadius) ==
    LET startPoint == Pt(from.x, from.y + nodeRadius)
        endPoint == Pt(to.x, to.y - nodeRadius)
    IN  IF \/ Len(obstacles) = 0
           \/ ~pathIntersectsObstacles(getDirectPath(startPoint, endPoint),
                                       obstacles, Clearance)
        THEN getDirectPath(startPoint, endPoint)
        ELSE findPathAroundObstacles(startPoint, endPoint, obstacles, Clearance)

(***************************************************************************)
(* filter-utils: text                                                      *)
(***************************************************************************)
\* the characters of the string values used in the model; a search term is
\* held as its sequence of characters
Spell(str) ==
    CASE str = "a" -> <<"a">>
      [] str = "b" -> <<"b">>
      [] str = "c" -> <<"c">>
      [] str = "x" -> <<"x">>
      [] str = "p" -> <<"p">>
      [] str = "q" -> <<"q">>
      [] str = "z" -> <<"z">>
      [] str = "Ab" -> <<"A", "b">>
      [] str = "Bc" -> <<"B", "c">>
      [] str = "Cc" -> <<"C", "c">>
      [] str = "ab" -> <<"a", "b">>
      [] str = "ca" -> <<"c", "a">>
      [] str = "cc" -> <<"c", "c">>
      [] str = "active" -> <<"a", "c", "t", "i", "v", "e">>
      [] str = "Active" -> <<"A", "c", "t", "i", "v", "e">>
      [] str = "scheduled" -> <<"s", "c", "h", "e", "d", "u", "l", "e", "d">>
      [] str = "Beginner" -> <<"B", "e", "g", "i", "n", "n", "e", "r">>
      [] str = "Advanced" -> <<"A", "d", "v", "a", "n", "c", "e", "d">>
      [] str = "Actions" -> <<"A", "c", "t", "i", "o", "n", "s">>
      [] str = "Pages" -> <<"P", "a", "g", "e", "s">>

\* String.prototype.toLowerCase on the characters of the model
ToLowerChar(ch) ==
    LET LowerCase == <<"a", "b", "c", "p">>
    IN
    LET UpperCase == <<"A", "B", "C", "P">>
    IN
    IF \E k \in 1..Len(UpperCase) : UpperCase[k] = ch
    THEN LowerCase[CHOOSE k \in 1..Len(UpperCase) : UpperCase[k] = ch]
    ELSE ch

toLowerCase(text) == [k \in 1..Len(text) |-> ToLowerChar(text[k])]

\* variant: nothing is trimmed
trim_Nothing(text) == text

\* String.prototype.trim: white space removed from both ends
RECURSIVE trim(_)
trim(text) ==
    IF text = <<>> THEN text
    ELSE IF Head(text) = " " THEN trim(Tail(text))
    ELSE IF text[Len(text)] = " " THEN trim(SubSeq(text, 1, Len(text) - 1))
    ELSE text

\* String.prototype.includes
includes(text, term) ==
    \E k \in 0..(Len(text) - Len(term)) : SubSeq(text, k + 1, k + Len(term)) = term

(***************************************************************************)
(* filter-utils: matchesSearchTerm and calculateExerciseVisibility         *)
(* Visibility values are in thousandths: 1000 is 1, 250 is 0.25, 150 is    *)
(* 0.15.  0.25 + 0.75 * (k / n) is exact in thousandths for n <= 3, and the *)
(* double-precision result equals it.                                      *)
(***************************************************************************)
\* the optional list field, or [] when it is absent
ListOf(field) == IF field = Undefined THEN <<>> ELSE ValueOf(field)

matchesSearchTerm(exercise, path, term) ==
    LET \* fieldsToSearch, absent fields left out (they fail the `field &&` test);
        \* an optional field is the empty sequence or holds its one value
        FieldsToSearch ==
            <<exercise.name, exercise.description, exercise.status>>
            \o exercise.difficulty
            \o <<exercise.slug, path.name, path.description>>
            \o ListOf(exercise.products)
            \o ListOf(exercise.dependencies)
    IN
    IF trim(term) = <<>> THEN TRUE
    ELSE LET fieldsToSearch == FieldsToSearch
         IN  \E k \in 1..Len(fieldsToSearch) :
                /\ Spell(fieldsToSearch[k]) # <<>>
                /\ includes(toLowerCase(Spell(fieldsToSearch[k])), toLowerCase(term))

\* variant: the status is compared with its case kept
StatusMatches_CaseSensitive(statuses, status) ==
    \E k \in 1..Len(statuses) : statuses[k] = status

\* filters.statuses.some(status => status.toLowerCase() === exercise.status.toLowerCase())
StatusMatches(statuses, status) ==
    \E k \in 1..Len(statuses) :
        toLowerCase(Spell(statuses[k])) = toLowerCase(Spell(status))

calculateExerciseVisibility(exercise, path, flt, term) ==
    LET \* the hasMatch flags of the active (non-empty) filters, in the order path,
        \* product, difficulty
        ActiveFilters ==
            (IF Len(flt.paths) > 0
             THEN <<exercise.pathSlug # Undefined
                    /\ ValueOf(exercise.pathSlug) \in Range(flt.paths)>>
             ELSE <<>>)
            \o (IF Len(flt.products) > 0
                THEN <<exercise.products # Undefined
                       /\ \E k \in 1..Len(ValueOf(exercise.products)) :
                             ValueOf(exercise.products)[k] \in Range(flt.products)>>
                ELSE <<>>)
            \o (IF Len(flt.difficulties) > 0
                THEN <<exercise.difficulty # Undefined
                       /\ ValueOf(exercise.difficulty) \in Range(flt.difficulties)>>
                ELSE <<>>)
    IN
    LET \* searchTerm && searchTerm.trim()
        SearchActive ==
            term # Undefined /\ ValueOf(term) # <<>> /\ trim(ValueOf(term)) # <<>>
    IN
    IF SearchActive
    THEN (IF matchesSearchTerm(exercise, path, ValueOf(term)) THEN 1000 ELSE 150)
    ELSE IF Len(flt.statuses) > 0 /\ ~StatusMatches(flt.statuses, exercise.status)
    THEN 250
    ELSE IF Len(flt.paths) + Len(flt.products) + Len(flt.difficulties) = 0
    THEN 1000
    ELSE LET activeFilters == ActiveFilters
             matchingFilters == Cardinality({k \in 1..Len(activeFilters) : activeFilters[k]})
             totalActiveFilterCount == Len(activeFilters)
         IN  IF totalActiveFilterCount = 0 THEN 1000
             ELSE 250 + (750 * matchingFilters) \div totalActiveFilterCount

\* applyVisibilityToNodes: every node gets its visibility
applyVisibilityToNodes(nodes, flt, term) ==
    [i \in 1..Len(nodes) |->
        [exercise |-> nodes[i].exercise,
         path |-> nodes[i].path,
         position |-> nodes[i].position,
         dependencies |-> nodes[i].dependencies,
         dependents |-> nodes[i].dependents,
         visibility |-> calculateExerciseVisibility(nodes[i].exercise, nodes[i].path,
                                                    flt, term)]]

(***************************************************************************)
(* request-queue: RequestQueue                                             *)
(***************************************************************************)
MaxRequests == 3    \* requests handed to enqueue

\* private minDelay = 100 (ms)
MinDelay == 100

RequestIds == 1..MaxRequests

\* an activation of processQueue that is not (or no longer) running
NoLoop == [pc |-> "off", request |-> 0, remaining |-> 0]

\* the queue object after construction, no request made: queue = [],
\* isProcessing = false, lastRequestTime = 0 (so Date.now() is far beyond it)
QueueIdle ==
    /\ queue = <<>>
    /\ isProcessing = FALSE
    /\ elapsed = MinDelay
    /\ loops = [a \in RequestIds |-> NoLoop]
    /\ fnState = [r \in RequestIds |-> "notStarted"]
    /\ promise = [r \in RequestIds |-> [state |-> "none", of |-> 0]]
    /\ started = <<>>
    /\ enqueued = <<>>

\* variant: processQueue does not look at isProcessing
ProcessQueueReturns_IgnoresFlag(flag, q) == q = <<>>

\* if (this.isProcessing || this.queue.length === 0) return
ProcessQueueReturns(flag, q) == flag \/ q = <<>>

\* variant: the flag is left set when the loop ends
FlagAfterLoop_StaysSet == TRUE

\* this.isProcessing = false, after the while loop
FlagAfterLoop == FALSE

\* const result = await request.fn(): the function is called
CallFn(a, request) ==
    /\ loops' = [loops EXCEPT ![a] = [pc |-> "await", request |-> request,
                                      remaining |-> 0]]
    /\ fnState' = [fnState EXCEPT ![request] = "executing"]
    /\ started' = Append(started, request)

\* activation a of processQueue runs from the test of the while condition to
\* its next await (or to its end); q is the queue, el the time since
\* lastRequestTime and flag the value of isProcessing at that moment
LoopPass(a, q, el, flag) ==
    IF q = <<>>
    THEN /\ queue' = q
         /\ isProcessing' = FlagAfterLoop
         /\ loops' = [loops EXCEPT ![a] = NoLoop]
         /\ UNCHANGED <<fnState, started>>
    ELSE /\ queue' = Tail(q)
         /\ isProcessing' = flag
         /\ IF el < MinDelay
            THEN /\ loops' = [loops EXCEPT ![a] =
                                [pc |-> "delay", request |-> Head(q),
                                 remaining |-> MinDelay - el]]
                 /\ UNCHANGED <<fnState, started>>
            ELSE CallFn(a, Head(q))

\* enqueue(requestFn) for request r: the push and the synchronous part of
\* processQueue
Enqueue(r) ==
    LET \* new Promise: pending until resolve or reject is called
        PendingPromise == [state |-> "pending", of |-> 0]
    IN
    /\ promise[r].state = "none"
    /\ promise' = [promise EXCEPT ![r] = PendingPromise]
    /\ enqueued' = Append(enqueued, r)
    /\ IF ProcessQueueReturns(isProcessing, Append(queue, r))
       THEN /\ queue' = Append(queue, r)
            /\ UNCHANGED <<isProcessing, loops, fnState, started>>
       ELSE LoopPass(r, Append(queue, r), elapsed, TRUE)
    /\ UNCHANGED <<elapsed, appVars, cacheVars, storageVars>>

\* the timer of setTimeout(resolve, delayNeeded) fires: the loop goes on to
\* call the request function
TimerFires(a) ==
    /\ loops[a].pc = "delay"
    /\ loops[a].remaining = 0
    /\ CallFn(a, loops[a].request)
    /\ UNCHANGED <<queue, isProcessing, elapsed, promise, enqueued, appVars, cacheVars, storageVars>>

\* time passes
Tick ==
    LET \* the step in which the clock read by Date.now() advances (ms)
        TickMs == 50
    IN
    /\ elapsed < MinDelay \/ \E a \in RequestIds : loops[a].remaining > 0
    /\ elapsed' = IF elapsed + TickMs < MinDelay THEN elapsed + TickMs ELSE MinDelay
    /\ loops' = [a \in RequestIds |->
                    [loops[a] EXCEPT !.remaining =
                        IF @ > TickMs THEN @ - TickMs ELSE 0]]
    /\ UNCHANGED <<queue, isProcessing, fnState, promise, started, enqueued,
                   appVars, cacheVars, storageVars>>

\* the promise returned by the function of request r settles
FnSettles(r, outcome) ==
    /\ fnState[r] = "executing"
    /\ fnState' = [fnState EXCEPT ![r] = outcome]
    /\ UNCHANGED <<queue, isProcessing, elapsed, loops, promise, started,
                   enqueued, appVars, cacheVars, storageVars>>

\* the loop resumes after await request.fn(): resolve or reject, then
\* this.lastRequestTime = Date.now() and the next pass of the loop
Resume(a) ==
    LET \* request.resolve(result) / request.reject(error): the promise of the
        \* request takes the outcome of the request's own function
        SettledWith(request, outcome) ==
            [state |-> IF outcome = "fulfilled" THEN "resolved" ELSE "rejected",
             of |-> request]
    IN
    /\ loops[a].pc = "await"
    /\ fnState[loops[a].request] \in {"fulfilled", "rejected"}
    /\ promise' = [promise EXCEPT ![loops[a].request] =
                      SettledWith(loops[a].request, fnState[loops[a].request])]
    /\ elapsed' = 0
    /\ LoopPass(a, queue, 0, isProcessing)
    /\ UNCHANGED <<enqueued, appVars, cacheVars, storageVars>>

(***************************************************************************)
(* cache: MemoryCache and cachedFetch                                      *)
(***************************************************************************)
MaxCalls == 2       \* calls of cachedFetch
MaxClock == 3       \* minutes the clock read by the caches runs for

\* ttlMinutes * 60 * 1000
MsPerMinute == 60 * 1000

CallIds == 1..MaxCalls

\* the cache keys, ttlMinutes arguments and fetcher results of the calls; a
\* fetcher may resolve with null (response.json() of the JSON text null)
CacheKeyInputs == {"k1", "k2"}
TtlInputs == {1, 2}
Null == "null"
FetchError == "error"
FetchResults == {"A", "B", Null}

\* new Map(): no key has an entry; the clock starts at the page load
CacheIdle ==
    LET \* a call of cachedFetch that was not made yet
        NoCall == [state |-> "idle", key |-> "", ttlMinutes |-> 0, value |-> Null,
                   invoked |-> 0]
    IN
    /\ now = 0
    /\ memCache = [key \in CacheKeyInputs |-> Undefined]
    /\ fetchCalls = [c \in CallIds |-> NoCall]

\* (now - entry.timestamp) > entry.ttl
IsExpired(entry, t) == (t - entry.timestamp) > entry.ttl

\* cachedFetch(cacheKey, fetcher, ttlMinutes) up to its return or its await
CachedFetch(c, key, ttlMinutes) ==
    LET \* MemoryCache.get(key): the map afterwards (an expired entry is deleted)
        CacheAfterGet(cache, t) ==
            IF cache[key] # Undefined /\ IsExpired(ValueOf(cache[key]), t)
            THEN [cache EXCEPT ![key] = Undefined]
            ELSE cache
    IN
    LET \* MemoryCache.get(key): the returned value
        CacheGet(cache, t) ==
            IF cache[key] = Undefined THEN Null
            ELSE IF IsExpired(ValueOf(cache[key]), t) THEN Null
            ELSE ValueOf(cache[key]).data
    IN
    /\ fetchCalls[c].state = "idle"
    /\ memCache' = CacheAfterGet(memCache, now)
    /\ LET cached == CacheGet(memCache, now)
       IN  fetchCalls' = [fetchCalls EXCEPT ![c] =
              IF cached # Null
              THEN [state |-> "returned", key |-> key, ttlMinutes |-> ttlMinutes,
                    value |-> cached, invoked |-> 0]
              ELSE [state |-> "fetching", key |-> key, ttlMinutes |-> ttlMinutes,
                    value |-> Null, invoked |-> 1]]
    /\ UNCHANGED <<now, appVars, queueVars, storageVars>>

\* the fetcher of call c settles and cachedFetch runs to its end
FetcherSettles(c, outcome) ==
    LET \* MemoryCache.set(key, value, ttlMinutes)
        CacheSet(cache, key, value, ttlMinutes, t) ==
            [cache EXCEPT ![key] = Some([data |-> value, timestamp |-> t,
                                         ttl |-> ttlMinutes * MsPerMinute])]
    IN
    /\ fetchCalls[c].state = "fetching"
    /\ IF outcome = FetchError
       THEN /\ fetchCalls' = [fetchCalls EXCEPT ![c].state = "threw",
                                                ![c].value = FetchError]
            /\ UNCHANGED memCache
       ELSE /\ memCache' = CacheSet(memCache, fetchCalls[c].key, outcome,
                                    fetchCalls[c].ttlMinutes, now)
            /\ fetchCalls' = [fetchCalls EXCEPT ![c].state = "returned",
                                                ![c].value = outcome]
    /\ UNCHANGED <<now, appVars, queueVars, storageVars>>

\* setInterval(() => { cache.cleanup() ... }, 30 * 60 * 1000)
MemoryCleanup ==
    LET \* MemoryCache.cleanup()
        CacheCleanup(cache, t) ==
            [key \in DOMAIN cache |->
                IF cache[key] # Undefined /\ IsExpired(ValueOf(cache[key]), t)
                THEN Undefined ELSE cache[key]]
    IN
    /\ memCache' = CacheCleanup(memCache, now)
    /\ UNCHANGED <<now, fetchCalls, appVars, queueVars, storageVars>>

\* a minute passes
ClockTick ==
    /\ now < MaxClock * MsPerMinute
    /\ now' = now + MsPerMinute
    /\ UNCHANGED <<memCache, fetchCalls, localStorage, cleanupResult, appVars,
                   queueVars>>

(***************************************************************************)
(* persistent-cache: PersistentCache over localStorage                     *)
(***************************************************************************)
\* 'skills-tree-cache:'
CACHE_PREFIX ==
    <<"s", "k", "i", "l", "l", "s", "-", "t", "r", "e", "e", "-",
      "c", "a", "c", "h", "e", ":">>

\* 'skills-tree-cache-config'
CONFIG_KEY ==
    <<"s", "k", "i", "l", "l", "s", "-", "t", "r", "e", "e", "-",
      "c", "a", "c", "h", "e", "-", "c", "o", "n", "f", "i", "g">>

CACHE_VERSION == 1

\* key.startsWith(prefix)
startsWith(text, prefix) ==
    Len(text) >= Len(prefix) /\ SubSeq(text, 1, Len(prefix)) = prefix

\* `${PersistentCache.CACHE_PREFIX}${key}`
getCacheKey(key) == CACHE_PREFIX \o key

\* the keys handed to the persistent cache, and a key of another part of the
\* application kept in the same localStorage
PersistentKeyInputs == {<<"a">>, <<"b">>}
\* DEFAULT_CACHE_CONFIG: reactionsTtlMinutes and rateLimitTtlMinutes
ReactionsTtlMinutes == 30
RateLimitTtlMinutes == 1

\* JSON.stringify(entry): a text that JSON.parse turns back into the entry
Stringify(entry) ==
    [kind |-> "json", data |-> entry.data, timestamp |-> entry.timestamp,
     ttl |-> entry.ttl, version |-> entry.version]

\* a text that is not JSON, and the empty string
CorruptText == [kind |-> "corrupt", data |-> "", timestamp |-> 0, ttl |-> 0,
                version |-> 0]
EmptyText == [kind |-> "empty", data |-> "", timestamp |-> 0, ttl |-> 0,
              version |-> 0]

\* JSON.stringify(this.config): an object without timestamp, ttl or version;
\* config names the configuration that was written
ConfigText(config) ==
    [kind |-> "json", data |-> config, timestamp |-> 0, ttl |-> 0,
     version |-> 0]

\* JSON.parse(stored) throws
ParseThrows(stored) == stored.kind # "json"

\* PersistentCache.cleanup(): the storage afterwards and the returned counts
cleanup(storage, t) ==
    LET \* cleanup(), for one key of cacheKeys: the entry is removed and counted
        CleanupRemoves(cacheKey) ==
            LET \* JSON.parse(stored)
                Parse(stored) ==
                    [data |-> stored.data, timestamp |-> stored.timestamp, ttl |-> stored.ttl,
                     version |-> stored.version]
            IN
            /\ cacheKey # CONFIG_KEY
            /\ storage[cacheKey] # EmptyText
            /\ \/ ParseThrows(storage[cacheKey])
               \/ Parse(storage[cacheKey]).version # CACHE_VERSION
               \/ (t - Parse(storage[cacheKey]).timestamp) > Parse(storage[cacheKey]).ttl
    IN
    LET keys == DOMAIN storage
        cacheKeys == {key \in keys : startsWith(key, CACHE_PREFIX)}
        removed == {cacheKey \in cacheKeys : CleanupRemoves(cacheKey)}
        cleaned == Cardinality(removed)
    IN  [storage |-> [key \in keys \ removed |-> storage[key]],
         cleaned |-> cleaned,
         remaining |-> Cardinality(cacheKeys) - cleaned - 1]

\* PersistentCache.set(key, value, dataType): localStorage.setItem
SetItem(storage, key, text) ==
    [k \in DOMAIN storage \cup {key} |-> IF k = key THEN text ELSE storage[k]]

\* persistentCache.set(key, value, dataType)
PersistentSet(key, value, dataType) ==
    LET \* getTtlMs(dataType) for the data types 'reactions' and 'rateLimits'
        getTtlMs ==
            IF dataType = "reactions" THEN ReactionsTtlMinutes * MsPerMinute
            ELSE RateLimitTtlMinutes * MsPerMinute
    IN
    /\ localStorage' =
          SetItem(localStorage, getCacheKey(key),
                  Stringify([data |-> value, timestamp |-> now,
                             ttl |-> getTtlMs,
                             version |-> CACHE_VERSION]))
    /\ UNCHANGED <<cleanupResult, appVars, queueVars, cacheVars>>

\* updateConfig(newConfig): saveConfig writes the merged configuration
UpdateConfig ==
    /\ localStorage' = SetItem(localStorage, CONFIG_KEY, ConfigText("updated"))
    /\ UNCHANGED <<cleanupResult, appVars, queueVars, cacheVars>>

\* setInterval(() => { const { cleaned, remaining } = this.cleanup() ... })
Cleanup ==
    /\ localStorage' = cleanup(localStorage, now).storage
    /\ cleanupResult' = [status |-> "returned",
                         cleaned |-> cleanup(localStorage, now).cleaned,
                         remaining |-> cleanup(localStorage, now).remaining]
    /\ UNCHANGED <<appVars, queueVars, cacheVars>>

IoIdle ==
    LET \* nothing is stored and cleanup has not run
        StorageIdle ==
            /\ localStorage = <<>>
            /\ cleanupResult = [status |-> "pending", cleaned |-> 0, remaining |-> 0]
    IN
    QueueIdle /\ CacheIdle /\ StorageIdle

\* nothing of the component, the build, the drag, the router or the filters
\* has run
AppIdle ==
    /\ exercises = <<>>
    /\ paths = <<>>
    /\ built = [status |-> "pending", nodes |-> <<>>]
    /\ rebuilt = [status |-> "pending", nodes |-> <<>>]
    /\ currentNodes = <<>>
    /\ dragged = [status |-> "pending", draggedNodeSlug |-> MissingSlug,
                  newPosition |-> Origin, calls |-> 0, dependentSlugs |-> <<>>,
                  newPositions |-> [slug \in {} |-> Origin]]
    /\ settings = [isDragModeEnabled |-> FALSE, showApiMonitor |-> FALSE]
    /\ customPositions = [slug \in {} |-> Origin]
    /\ routeInput = [from |-> Origin, to |-> Origin, obstacles |-> <<>>,
                     nodeRadius |-> 0]
    /\ routed = [status |-> "pending", path |-> <<>>]
    /\ filters = [paths |-> <<>>, products |-> <<>>, difficulties |-> <<>>,
                  statuses |-> <<>>]
    /\ searchTerm = Undefined
    /\ visible = [status |-> "pending", visibility |-> 0]

(***************************************************************************)
(* Inputs of the build                                                     *)
(***************************************************************************)
OptionalOf(S) == {Undefined} \cup {Some(v) : v \in S}

Min(m, n) == IF m < n THEN m ELSE n

\* the dependencies fields of the first n exercises (absent, empty or a
\* list) that hold exactly e entries in total
RECURSIVE DepFields(_, _)
DepFields(n, e) ==
    IF n = 0 THEN (IF e = 0 THEN {<<>>} ELSE {})
    ELSE UNION {
            {Append(d, f) : d \in DepFields(n - 1, e - k),
                            f \in (IF k = 0 THEN {Undefined} ELSE {})
                                   \cup {Some(l) : l \in [1..k -> AllSlugs]}}
            : k \in 0..Min(MaxDeps, e)}

\* MaxEdges entries at most in the whole input
DepAssignments == UNION {DepFields(Len(Slugs), e) : e \in 0..MaxEdges}

ExerciseInputs ==
    LET \* exercise.position values of the inputs (relative offsets)
        Offsets == {Pt(-20, 0), Pt(10, 0), Pt(0, 10)}
    IN
    {[i \in 1..Len(Slugs) |->
        [slug |-> Slugs[i], pathSlug |-> Undefined, dependencies |-> d[i],
         position |-> p[i]]] :
     d \in DepAssignments, p \in [1..Len(Slugs) -> OptionalOf(Offsets)]}

\* useState<SettingsState>({ isDragModeEnabled: false, showApiMonitor: false, ... })
DefaultSettings == [isDragModeEnabled |-> FALSE, showApiMonitor |-> FALSE]

NoRouteInput == [from |-> Origin, to |-> Origin, obstacles |-> <<>>, nodeRadius |-> 0]
NotRouted == [status |-> "pending", path |-> <<>>]

NotBuilt == [status |-> "pending", nodes |-> <<>>]

\* no filter selected in any category
NoFilters == [paths |-> <<>>, products |-> <<>>, difficulties |-> <<>>, statuses |-> <<>>]
NotComputed == [status |-> "pending", visibility |-> 0]
NoDrag ==
    [status |-> "pending", draggedNodeSlug |-> MissingSlug, newPosition |-> Origin,
     calls |-> 0, dependentSlugs |-> <<>>, newPositions |-> EmptyRecord]

(***************************************************************************)
(* Specification of the build                                              *)
(***************************************************************************)
Init ==
    /\ exercises \in ExerciseInputs
    /\ paths = <<>>
    /\ built = NotBuilt
    /\ currentNodes = <<>>
    /\ dragged = NoDrag
    /\ settings = DefaultSettings
    /\ customPositions = EmptyRecord
    /\ routeInput = NoRouteInput
    /\ routed = NotRouted
    /\ rebuilt = NotBuilt
    /\ filters = NoFilters
    /\ searchTerm = Undefined
    /\ visible = NotComputed
    /\ IoIdle

\* const nodes = createSkillTreeData(exercises, paths)
Build ==
    LET \* the exercise objects after a run: each node holds a reference to its
        \* exercise (not a copy), so what the run wrote through node.exercise shows
        \* in the input; a run that threw has not got that far for the rest
        ExercisesAfter(exs, outcome) ==
            IF outcome.status = "returned"
            THEN [i \in 1..Len(exs) |-> outcome.nodes[i].exercise]
            ELSE exs
    IN
    /\ built.status = "pending"
    /\ built' = createSkillTreeData(exercises, paths)
    /\ exercises' = ExercisesAfter(exercises, built')
    /\ UNCHANGED <<paths, rebuilt, currentNodes, dragged, settings,
                   customPositions, routeInput, routed, filters, searchTerm,
                   visible, ioVars>>

\* a second createSkillTreeData(exercises, paths) on the same input objects
Rebuild ==
    /\ built.status # "pending"
    /\ rebuilt.status = "pending"
    /\ rebuilt' = createSkillTreeData(exercises, paths)
    /\ UNCHANGED <<exercises, paths, built, currentNodes, dragged, settings,
                   customPositions, routeInput, routed, filters, searchTerm,
                   visible, ioVars>>

Next == Build \/ Rebuild

Spec == Init /\ [][Next]_vars

(***************************************************************************)
(* Specification of the build of one graph from two input orders           *)
(***************************************************************************)
InitOrder ==
    LET \* exercises with an acyclic dependency graph: the build returns for them
        OrderInputs ==
            {e \in ExerciseInputs :
                /\ \A i \in 1..Len(e) : e[i].position \in OptionalOf({Pt(10, 0), Pt(0, 10)})
                /\ createSkillTreeData(e, <<>>).status = "returned"}
    IN
    /\ exercises \in OrderInputs
    /\ paths = <<>>
    /\ built = NotBuilt
    /\ currentNodes = <<>>
    /\ dragged = NoDrag
    /\ settings = DefaultSettings
    /\ customPositions = EmptyRecord
    /\ routeInput = NoRouteInput
    /\ routed = NotRouted
    /\ rebuilt = NotBuilt
    /\ filters = NoFilters
    /\ searchTerm = Undefined
    /\ visible = NotComputed
    /\ IoIdle

\* createSkillTreeData on the same exercises handed over in another order
BuildReordered ==
    LET \* the exercises in the order p
        Permuted(exs, p) == [i \in 1..Len(exs) |-> exs[p[i]]]
    IN
    LET \* the orders in which n exercises can be handed over
        InputOrders(n) ==
            {p \in [1..n -> 1..n] : \A i, j \in 1..n : p[i] = p[j] => i = j}
    IN
    /\ built.status = "returned"
    /\ rebuilt.status = "pending"
    /\ \E p \in InputOrders(Len(exercises)) :
          rebuilt' = createSkillTreeData(Permuted(exercises, p), paths)
    /\ UNCHANGED <<exercises, paths, built, currentNodes, dragged, settings,
                   customPositions, routeInput, routed, filters, searchTerm,
                   visible, ioVars>>

NextOrder == Build \/ BuildReordered

SpecOrder == InitOrder /\ [][NextOrder]_vars

(***************************************************************************)
(* Specification of the build over path references                         *)
(***************************************************************************)
MaxPaths == 2       \* longest Path list handed to the build

\* Path records; PathP and PathP2 share their slug
PathP == [slug |-> "p", name |-> "Ab", description |-> "ca", color |-> "red"]
PathQ == [slug |-> "q", name |-> "Bc", description |-> "ab", color |-> "blue"]
PathP2 == [slug |-> "p", name |-> "Cc", description |-> "cc", color |-> "green"]

InitPaths ==
    LET \* exercises without dependencies, any path reference
        PathExerciseInputs ==
            LET \* pathSlug fields: absent, the slug of PathP, of PathQ, of no path
                PathSlugInputs == OptionalOf({"p", "q", "z"})
            IN
            {[i \in 1..Len(Slugs) |->
                [slug |-> Slugs[i], pathSlug |-> ps[i], dependencies |-> Undefined,
                 position |-> Undefined]] :
             ps \in [1..Len(Slugs) -> PathSlugInputs]}
    IN
    LET PathInputs == SeqsUpTo({PathP, PathQ, PathP2}, MaxPaths)
    IN
    /\ exercises \in PathExerciseInputs
    /\ paths \in PathInputs
    /\ built = NotBuilt
    /\ currentNodes = <<>>
    /\ dragged = NoDrag
    /\ settings = DefaultSettings
    /\ customPositions = EmptyRecord
    /\ routeInput = NoRouteInput
    /\ routed = NotRouted
    /\ rebuilt = NotBuilt
    /\ filters = NoFilters
    /\ searchTerm = Undefined
    /\ visible = NotComputed
    /\ IoIdle

SpecPaths == InitPaths /\ [][Next]_vars

(***************************************************************************)
(* Specification of the visibility of one exercise                         *)
(***************************************************************************)
MaxTermLen == 2     \* characters of a search term

\* filter states: the default status filter is ['Active']
FilterInputs ==
    [paths : {<<>>, <<"p">>},
     products : {<<>>, <<"Pages">>},
     difficulties : {<<>>, <<"Beginner">>},
     statuses : {<<>>, <<"Active">>, <<"scheduled", "Active">>}]

VisExercises ==
    [slug : {"a"},
     name : {"Cc"},
     description : {"ca"},
     status : {"active", "scheduled"},
     pathSlug : OptionalOf({"p", "q"}),
     difficulty : OptionalOf({"Beginner", "Advanced"}),
     products : OptionalOf({<<"Actions">>, <<"Actions", "Pages">>}),
     dependencies : {Some(<<"c">>)},
     position : {Undefined}]

InitVisibility ==
    LET \* searchTerm: absent, or any text of up to MaxTermLen characters
        SearchTerms ==
            LET \* characters typed into the search box
                TermChars == {"a", "B", " "}
            IN
            OptionalOf(SeqsUpTo(TermChars, MaxTermLen))
    IN
    /\ exercises \in {<<e>> : e \in VisExercises}
    /\ paths = <<PathP2>>
    /\ filters \in FilterInputs
    /\ searchTerm \in SearchTerms
    /\ built = NotBuilt
    /\ currentNodes = <<>>
    /\ dragged = NoDrag
    /\ settings = DefaultSettings
    /\ customPositions = EmptyRecord
    /\ routeInput = NoRouteInput
    /\ routed = NotRouted
    /\ rebuilt = NotBuilt
    /\ visible = NotComputed
    /\ IoIdle

\* calculateExerciseVisibility(exercise, path, filters, searchTerm)
Visibility ==
    /\ visible.status = "pending"
    /\ visible' = [status |-> "returned",
                   visibility |-> calculateExerciseVisibility(exercises[1], paths[1],
                                                              filters, searchTerm)]
    /\ UNCHANGED <<exercises, paths, built, rebuilt, currentNodes, dragged, settings,
                   customPositions, routeInput, routed, filters, searchTerm, ioVars>>

NextVisibility == Visibility

SpecVisibility == InitVisibility /\ [][NextVisibility]_vars

(***************************************************************************)
(* Specification of a drag over an arbitrary node graph                    *)
(***************************************************************************)
\* new positions of the dragged node
DragTargets == {Pt(20, 0), Pt(-10, 40)}

InitDrag ==
    LET NodeInputs ==
            LET \* node arrays with mirrored dependents, any dependency relation (cycles,
                \* self-dependencies and missing slugs included) and any current positions
                ExerciseOfNode(i, deps) ==
                    [slug |-> Slugs[i], pathSlug |-> Undefined, dependencies |-> Some(deps),
                     position |-> Undefined]
            IN
            LET \* current positions of the nodes handed to calculateDraggedPositions
                NodePositions == {Pt(0, 0), Pt(30, 50)}
            IN
            {LET nodes == CalculateDependents(
                            FirstPass([i \in 1..Len(Slugs) |-> ExerciseOfNode(i, ValueOf(d[i]))],
                                      <<>>), 1)
             IN  [i \in 1..Len(Slugs) |-> [nodes[i] EXCEPT !.position = p[i]]] :
             d \in {e \in DepAssignments : \A i \in 1..Len(Slugs) : e[i] # Undefined},
             p \in [1..Len(Slugs) -> NodePositions]}
    IN
    /\ exercises = <<>>
    /\ paths = <<>>
    /\ built = NotBuilt
    /\ currentNodes \in NodeInputs
    /\ dragged = NoDrag
    /\ settings = DefaultSettings
    /\ customPositions = EmptyRecord
    /\ routeInput = NoRouteInput
    /\ routed = NotRouted
    /\ rebuilt = NotBuilt
    /\ filters = NoFilters
    /\ searchTerm = Undefined
    /\ visible = NotComputed
    /\ IoIdle

\* calculateDraggedPositions(nodeSlug, newPosition, currentNodes)
Drag ==
    /\ dragged.status = "pending"
    /\ \E nodeSlug \in AllSlugs \cup Range(SlugsOfNodes(currentNodes)),
          newPosition \in DragTargets :
          dragged' = calculateDraggedPositions(nodeSlug, newPosition, currentNodes)
    /\ UNCHANGED <<exercises, paths, built, rebuilt, currentNodes, settings,
                   customPositions, routeInput, routed, filters, searchTerm,
                   visible, ioVars>>

NextDrag == Drag

SpecDrag == InitDrag /\ [][NextDrag]_vars

(***************************************************************************)
(* Specification of a drag over graphs of four nodes (diamonds included)   *)
(***************************************************************************)
MaxClosureEdges == 4    \* dependency entries in a four-node graph

ClosureSlugs == <<"a", "b", "c", "d">>

InitClosure ==
    LET \* the node arrays the build makes of them (dependents mirrored), each node
        \* at a position of its own
        ClosureInputs ==
            LET \* the dependency list of the i-th node, in slug order
                ClosureDependencies(E, i) ==
                    LET listed == SelectSeq([j \in DOMAIN ClosureSlugs |-> j],
                                            LAMBDA j : <<i, j>> \in E)
                    IN  [k \in 1..Len(listed) |-> ClosureSlugs[listed[k]]]
            IN
            LET \* the dependency relations of at most MaxClosureEdges entries: a pair
                \* <<i, j>> says that the i-th node lists the j-th one as a dependency
                ClosureEdgeSets ==
                    UNION {{E \in SUBSET ((DOMAIN ClosureSlugs) \X (DOMAIN ClosureSlugs)) :
                                Cardinality(E) = n} : n \in 0..MaxClosureEdges}
            IN
            {LET nodes == CalculateDependents(
                            FirstPass([i \in DOMAIN ClosureSlugs |->
                                          [slug |-> ClosureSlugs[i], pathSlug |-> Undefined,
                                           dependencies |-> Some(ClosureDependencies(E, i)),
                                           position |-> Undefined]],
                                      <<>>), 1)
             IN  [i \in DOMAIN ClosureSlugs |->
                    [nodes[i] EXCEPT !.position = Pt(30 * i, 50 * (i % 2))]] :
             E \in ClosureEdgeSets}
    IN
    /\ exercises = <<>>
    /\ paths = <<>>
    /\ built = NotBuilt
    /\ currentNodes \in ClosureInputs
    /\ dragged = NoDrag
    /\ settings = DefaultSettings
    /\ customPositions = EmptyRecord
    /\ routeInput = NoRouteInput
    /\ routed = NotRouted
    /\ rebuilt = NotBuilt
    /\ filters = NoFilters
    /\ searchTerm = Undefined
    /\ visible = NotComputed
    /\ IoIdle

SpecClosure == InitClosure /\ [][NextDrag]_vars

(***************************************************************************)
(* SkillsTree: the position overlay                                        *)
(***************************************************************************)
\* nodesWithCustomPositions: a node takes its overlay entry only in drag mode
nodesWithCustomPositions(nodes, custom, isDragModeEnabled) ==
    [i \in 1..Len(nodes) |->
        IF nodes[i].exercise.slug \in DOMAIN custom /\ isDragModeEnabled
        THEN [nodes[i] EXCEPT !.position = custom[nodes[i].exercise.slug]]
        ELSE nodes[i]]

\* variant: the returned map replaces the overlay
MergePositions_Replace(current, newPositions) == newPositions

\* { ...current, ...newPositions }
MergePositions(current, newPositions) ==
    [slug \in DOMAIN current \cup DOMAIN newPositions |->
        IF slug \in DOMAIN newPositions THEN newPositions[slug] ELSE current[slug]]

\* variant: the overlay survives the end of drag mode
OverlayAfterSettingsChange_Kept(newSettings, custom) == custom

\* if (!newSettings.isDragModeEnabled) setCustomPositions({})
OverlayAfterSettingsChange(newSettings, custom) ==
    IF ~newSettings.isDragModeEnabled THEN EmptyRecord ELSE custom

\* handleSettingsChange(newSettings)
handleSettingsChange(newSettings) ==
    /\ settings' = newSettings
    /\ customPositions' = OverlayAfterSettingsChange(newSettings, customPositions)
    /\ UNCHANGED <<exercises, paths, built, rebuilt, currentNodes, dragged,
                   routeInput, routed, filters, searchTerm, visible, ioVars>>

\* handleNodeDrag(nodeSlug, newPosition)
handleNodeDrag(nodeSlug, newPosition) ==
    LET nodesWithVisibility ==
            nodesWithCustomPositions(built.nodes, customPositions,
                                     settings.isDragModeEnabled)
    IN  IF ~settings.isDragModeEnabled THEN UNCHANGED vars
        ELSE IF FindIndex(nodesWithVisibility, nodeSlug) = 0 THEN UNCHANGED vars
        ELSE /\ customPositions' =
                    MergePositions(customPositions,
                        calculateDraggedPositions(nodeSlug, newPosition,
                                                  nodesWithVisibility).newPositions)
             /\ UNCHANGED <<exercises, paths, built, rebuilt, currentNodes, dragged,
                            settings, routeInput, routed, filters, searchTerm, visible, ioVars>>

\* nodesToObstacles(nodes, excludeNodes): visibility is not looked at
nodesToObstacles(nodes, excludeNodes) ==
    LET kept == SelectSeq([i \in 1..Len(nodes) |-> nodes[i]],
                          LAMBDA node : node.exercise.slug \notin Range(excludeNodes))
    IN  [k \in 1..Len(kept) |->
            [x |-> kept[k].position.x, y |-> kept[k].position.y, radius |-> ObstacleRadius]]

\* variant: only the target node is excluded
ExcludeNodes_TargetOnly(depSlug, nodeSlug) == <<nodeSlug>>

\* [depSlug, node.exercise.slug]
ExcludeNodes(depSlug, nodeSlug) == <<depSlug, nodeSlug>>

\* variant: dimmed nodes are not obstacles
ObstacleCandidates_VisibleOnly(nodes) ==
    SelectSeq([i \in 1..Len(nodes) |-> nodes[i]], LAMBDA node : node.visibility = 1000)

\* the node list handed to nodesToObstacles: nodesWithVisibility, all of it
ObstacleCandidates(nodes) == nodes

\* the connectors of the dependencies of one node, from the j-th on
RECURSIVE SkillPathsOfNode(_, _, _)
SkillPathsOfNode(nodes, node, j) ==
    LET \* the connector of one dependency of one node: nothing when the dependency
        \* names no node, else the SkillPath with its obstacles and routed points
        SkillPathOf(depSlug) ==
            LET d == FindIndex(nodes, depSlug)
            IN  IF d = 0 THEN <<>>
                ELSE LET obstacles == nodesToObstacles(ObstacleCandidates(nodes),
                                                       ExcludeNodes(depSlug, node.exercise.slug))
                     IN  <<[from |-> depSlug,
                            to |-> node.exercise.slug,
                            obstacles |-> obstacles,
                            points |-> calculateAvoidancePath(nodes[d].position, node.position,
                                                              obstacles, DefaultNodeRadius)]>>
    IN
    IF j > Len(node.dependencies) THEN <<>>
    ELSE SkillPathOf(node.dependencies[j])
         \o SkillPathsOfNode(nodes, node, j + 1)

\* nodesWithVisibility.map(node => node.dependencies.map(...)).flat().filter(Boolean)
RECURSIVE SkillPaths(_, _)
SkillPaths(nodes, i) ==
    IF i > Len(nodes) THEN <<>>
    ELSE SkillPathsOfNode(nodes, nodes[i], 1) \o SkillPaths(nodes, i + 1)

\* nodesWithVisibility of the current render
NodesWithVisibility ==
    applyVisibilityToNodes(
        nodesWithCustomPositions(built.nodes, customPositions, settings.isDragModeEnabled),
        filters, searchTerm)

\* the settings the panel can hand to handleSettingsChange
SettingsInputs == [isDragModeEnabled : BOOLEAN, showApiMonitor : BOOLEAN]

\* overlays found in the "node-positions" store when the component mounts
PersistedOverlays == {EmptyRecord, [slug \in {Slugs[2]} |-> Pt(70, 70)]}

WithAppFields(e) ==
    LET \* the descriptive fields of the i-th exercise the component is given
        AppFields ==
            <<[name |-> "Ab", description |-> "ca", status |-> "active",
               pathSlug |-> Some("p"), difficulty |-> Some("Beginner"),
               products |-> Some(<<"Actions">>)],
              [name |-> "Bc", description |-> "ab", status |-> "scheduled",
               pathSlug |-> Some("q"), difficulty |-> Undefined, products |-> Undefined],
              [name |-> "Cc", description |-> "cc", status |-> "active",
               pathSlug |-> Undefined, difficulty |-> Some("Advanced"),
               products |-> Some(<<"Pages">>)]>>
    IN
    [i \in 1..Len(e) |->
        [slug |-> e[i].slug, dependencies |-> e[i].dependencies,
         position |-> e[i].position, name |-> AppFields[i].name,
         description |-> AppFields[i].description, status |-> AppFields[i].status,
         pathSlug |-> AppFields[i].pathSlug, difficulty |-> AppFields[i].difficulty,
         products |-> AppFields[i].products]]

\* useState<FilterState>({ paths: [], products: [], difficulties: [],
\*                         statuses: [...FILTER_DEFAULTS.STATUSES] })
DefaultFilters ==
    [paths |-> <<>>, products |-> <<>>, difficulties |-> <<>>, statuses |-> <<"Active">>]

\* filter states the filter bar can hand to setFilters
AppFilterInputs ==
    {DefaultFilters,
     [paths |-> <<"p">>, products |-> <<>>, difficulties |-> <<>>, statuses |-> <<>>]}

\* search terms the search box can hand to setSearchTerm: '' and 'ac'
AppSearchTerms == {Some(<<>>), Some(<<"a", "c">>)}

\* the mounted component: nodes built, settings at their defaults or merged
\* from the stored settings, overlay as persisted
InitApp ==
    LET \* exercises the component is given: the build returns for them
        AppExercises ==
            {WithAppFields(e) : e \in
                {e \in ExerciseInputs :
                    /\ \A i \in 1..Len(e) :
                          e[i].dependencies # Undefined /\ e[i].position = Undefined
                    /\ createSkillTreeData(e, <<>>).status = "returned"}}
    IN
    /\ exercises \in AppExercises
    /\ paths = <<PathP, PathQ>>
    /\ built = createSkillTreeData(exercises, paths)
    /\ currentNodes = <<>>
    /\ dragged = NoDrag
    /\ settings \in {s \in SettingsInputs : ~s.showApiMonitor}
    /\ customPositions \in PersistedOverlays
    /\ routeInput = NoRouteInput
    /\ routed = NotRouted
    /\ rebuilt = NotBuilt
    /\ filters = DefaultFilters
    /\ searchTerm = Some(<<>>)
    /\ visible = NotComputed
    /\ IoIdle

SettingsChange == \E newSettings \in SettingsInputs : handleSettingsChange(newSettings)

NodeDrag ==
    \E nodeSlug \in AllSlugs, newPosition \in DragTargets :
        handleNodeDrag(nodeSlug, newPosition)

\* onFiltersChange={setFilters}
FiltersChange ==
    /\ \E newFilters \in AppFilterInputs : filters' = newFilters
    /\ UNCHANGED <<exercises, paths, built, rebuilt, currentNodes, dragged, settings,
                   customPositions, routeInput, routed, searchTerm, visible, ioVars>>

\* onSearchChange={setSearchTerm}
SearchChange ==
    /\ \E term \in AppSearchTerms : searchTerm' = term
    /\ UNCHANGED <<exercises, paths, built, rebuilt, currentNodes, dragged, settings,
                   customPositions, routeInput, routed, filters, visible, ioVars>>

NextApp == SettingsChange \/ NodeDrag

SpecApp == InitApp /\ [][NextApp]_vars

(***************************************************************************)
(* SkillsTree: the render under filters and search                         *)
(***************************************************************************)
InitView ==
    LET ViewExercises ==
            LET \* dependency lists of the three exercises: a chain, a fan, a node on two
                \* dependencies, two roots, dependencies on a missing exercise
                ViewDependencies ==
                    {<<<<>>, <<"a">>, <<"b">>>>,
                     <<<<>>, <<"a">>, <<"a">>>>,
                     <<<<>>, <<"a">>, <<"a", "b">>>>,
                     <<<<>>, <<>>, <<"a", "b">>>>,
                     <<<<>>, <<"x">>, <<"b", "x">>>>}
            IN
            {WithAppFields([i \in 1..Len(Slugs) |->
                              [slug |-> Slugs[i], dependencies |-> Some(deps[i]),
                               position |-> Undefined]]) : deps \in ViewDependencies}
    IN
    /\ exercises \in ViewExercises
    /\ paths = <<PathP, PathQ>>
    /\ built = createSkillTreeData(exercises, paths)
    /\ currentNodes = <<>>
    /\ dragged = NoDrag
    /\ settings \in {s \in SettingsInputs : ~s.showApiMonitor}
    /\ customPositions \in PersistedOverlays
    /\ routeInput = NoRouteInput
    /\ routed = NotRouted
    /\ rebuilt = NotBuilt
    /\ filters = DefaultFilters
    /\ searchTerm = Some(<<>>)
    /\ visible = NotComputed
    /\ IoIdle

NextView == SettingsChange \/ NodeDrag \/ FiltersChange \/ SearchChange

SpecView == InitView /\ [][NextView]_vars

(***************************************************************************)
(* Specification of the request queue                                      *)
(***************************************************************************)
InitQueue == AppIdle /\ IoIdle

EnqueueAny == \E r \in RequestIds : Enqueue(r)

TimerFiresAny == \E a \in RequestIds : TimerFires(a)

FnSettlesAny == \E r \in RequestIds, outcome \in {"fulfilled", "rejected"} :
                    FnSettles(r, outcome)

ResumeAny == \E a \in RequestIds : Resume(a)

NextQueue == EnqueueAny \/ TimerFiresAny \/ Tick \/ FnSettlesAny \/ ResumeAny

SpecQueue == InitQueue /\ [][NextQueue]_vars

\* time passes and timers fire, a resumed loop runs, and every request
\* function settles in the end; nothing obliges a caller to enqueue
QueueFairness ==
    /\ WF_vars(Tick)
    /\ WF_vars(TimerFiresAny)
    /\ WF_vars(ResumeAny)
    /\ \A r \in RequestIds :
          WF_vars(\E outcome \in {"fulfilled", "rejected"} : FnSettles(r, outcome))

SpecQueueLive == InitQueue /\ [][NextQueue]_vars /\ QueueFairness

(***************************************************************************)
(* Specification of cachedFetch over the memory cache                      *)
(***************************************************************************)
InitCache == AppIdle /\ IoIdle

CachedFetchAny ==
    \E c \in CallIds, key \in CacheKeyInputs, ttlMinutes \in TtlInputs :
        CachedFetch(c, key, ttlMinutes)

FetcherSettlesAny ==
    \E c \in CallIds, outcome \in FetchResults \cup {FetchError} :
        FetcherSettles(c, outcome)

NextCache == CachedFetchAny \/ FetcherSettlesAny \/ MemoryCleanup \/ ClockTick

SpecCache == InitCache /\ [][NextCache]_vars

(***************************************************************************)
(* Specification of the persistent cache                                   *)
(***************************************************************************)
InitStorage ==
    LET \* the contents of localStorage at the page load
        StorageInputs ==
            LET \* what an earlier session may have left under a cache key: an entry written
                \* at the page load, one written two minutes before it, one of another cache
                \* version, a text that is not JSON, the empty string
                StoredBefore ==
                    {Stringify([data |-> "A", timestamp |-> 0,
                                ttl |-> RateLimitTtlMinutes * MsPerMinute,
                                version |-> CACHE_VERSION]),
                     Stringify([data |-> "A", timestamp |-> 0 - 2 * MsPerMinute,
                                ttl |-> RateLimitTtlMinutes * MsPerMinute,
                                version |-> CACHE_VERSION]),
                     Stringify([data |-> "A", timestamp |-> 0,
                                ttl |-> ReactionsTtlMinutes * MsPerMinute,
                                version |-> CACHE_VERSION + 1]),
                     CorruptText, EmptyText}
            IN
            LET ForeignKey == <<"t", "h", "e", "m", "e">>
            IN
            {[key \in present \cup {ForeignKey} |->
                IF key = ForeignKey THEN CorruptText
                ELSE IF key = CONFIG_KEY THEN ConfigText("stored")
                ELSE texts[key]] :
             present \in SUBSET ({getCacheKey(k) : k \in PersistentKeyInputs}
                                    \cup {CONFIG_KEY}),
             texts \in [{getCacheKey(k) : k \in PersistentKeyInputs} -> StoredBefore]}
    IN
    /\ AppIdle
    /\ QueueIdle
    /\ CacheIdle
    /\ localStorage \in StorageInputs
    /\ cleanupResult = [status |-> "pending", cleaned |-> 0, remaining |-> 0]

PersistentSetAny ==
    \E key \in PersistentKeyInputs, dataType \in {"reactions", "rateLimits"} :
        PersistentSet(key, "B", dataType)

NextStorage == PersistentSetAny \/ UpdateConfig \/ Cleanup \/ ClockTick

SpecStorage == InitStorage /\ [][NextStorage]_vars

(***************************************************************************)
(* Specification of the routing of one connector                           *)
(***************************************************************************)
MaxObstacles == 2       \* obstacles handed to one routing call

InitRoute ==
    LET \* the nodeRadius argument: the default and a smaller radius
        NodeRadii == {DefaultNodeRadius, 20}
    IN
    LET ObstacleInputs ==
            LET \* centres of the other nodes
                ObstacleCentres ==
                    {Pt(50, 80), Pt(50, 90), Pt(50, -10), Pt(50, 30), Pt(0, 100), Pt(50, 130),
                     Pt(10, 50), Pt(-30, 50)}
            IN
            SeqsUpTo({[x |-> c.x, y |-> c.y, radius |-> ObstacleRadius] : c \in ObstacleCentres},
                     MaxObstacles)
    IN
    LET RouteTargets ==
            {Pt(0, 100), Pt(10, 100), Pt(100, 100), Pt(100, 160), Pt(-100, 160),
             Pt(100, 0), Pt(0, -40), Pt(100, 60)}
    IN
    LET \* node centres of the routed connector
        RouteSources == {Pt(0, 0), Pt(50, 20)}
    IN
    /\ exercises = <<>>
    /\ paths = <<>>
    /\ built = NotBuilt
    /\ currentNodes = <<>>
    /\ dragged = NoDrag
    /\ settings = DefaultSettings
    /\ customPositions = EmptyRecord
    /\ routeInput \in [from : RouteSources, to : RouteTargets,
                       obstacles : ObstacleInputs, nodeRadius : NodeRadii]
    /\ routed = NotRouted
    /\ rebuilt = NotBuilt
    /\ filters = NoFilters
    /\ searchTerm = Undefined
    /\ visible = NotComputed
    /\ IoIdle

\* calculateAvoidancePath(start, end, obstacles)
Route ==
    /\ routed.status = "pending"
    /\ routed' = [status |-> "returned",
                  path |-> calculateAvoidancePath(routeInput.from, routeInput.to,
                                                  routeInput.obstacles,
                                                  routeInput.nodeRadius)]
    /\ UNCHANGED <<exercises, paths, built, rebuilt, currentNodes, dragged,
                   settings, customPositions, routeInput, filters, searchTerm,
                   visible, ioVars>>

NextRoute == Route

SpecRoute == InitRoute /\ [][NextRoute]_vars

(***************************************************************************)
(* Properties of the build                                                 *)
(***************************************************************************)
NodeIdx == 1..Len(built.nodes)
SlugAt(i) == built.nodes[i].exercise.slug
NodeSlugs == {SlugAt(i) : i \in NodeIdx}
PosSum(p) == p.x + p.y

\* the dependencies of node i that are nodes of the graph
ResolvableDeps(i) ==
    {j \in NodeIdx : SlugAt(j) \in Range(built.nodes[i].dependencies)}

\* the exercise's own position field, or the given default
OwnOffset(i, default) ==
    IF exercises[i].position = Undefined THEN default
    ELSE ValueOf(exercises[i].position)

\* some exercise depends, directly or not, on itself
RECURSIVE ReachableDeps(_, _)
ReachableDeps(frontier, seen) ==
    LET next == {j \in 1..Len(exercises) :
                    \E i \in frontier :
                        exercises[j].slug \in Range(DependenciesOf(exercises[i]))}
    IN  IF next \subseteq seen THEN seen
        ELSE ReachableDeps(next \ seen, seen \cup next)

HasCycle == \E i \in 1..Len(exercises) : i \in ReachableDeps({i}, {})

\* C1: createSkillTreeData returns normally for every input, cyclic
\* dependency graphs included (a node reached again while its position is
\* being computed is skipped).
C1_BuildAlwaysReturns == built.status # "RangeError"

\* C2: every node with a resolvable dependency is placed at the position of
\* its anchor (a resolvable dependency of maximal x + y) plus its own
\* offset, (0,50) when the exercise gives none; negative and zero sums
\* included.
C2_AnchorPlusOffset ==
    built.status = "returned" =>
        \A i \in NodeIdx :
            ResolvableDeps(i) # {} =>
                \E a \in ResolvableDeps(i) :
                    /\ \A b \in ResolvableDeps(i) :
                          PosSum(built.nodes[a].position) >= PosSum(built.nodes[b].position)
                    /\ built.nodes[i].position =
                          Pt(built.nodes[a].position.x + OwnOffset(i, Pt(0, 50)).x,
                             built.nodes[a].position.y + OwnOffset(i, Pt(0, 50)).y)

\* C5: in the returned array, n's slug occurs in m.dependents exactly when
\* m's slug occurs in n.dependencies, and dependents name only nodes.
C5_DependentsMirrorDependencies ==
    built.status = "returned" =>
        /\ \A m \in NodeIdx, n \in NodeIdx :
              SlugAt(n) \in Range(built.nodes[m].dependents)
                  <=> SlugAt(m) \in Range(built.nodes[n].dependencies)
        /\ \A m \in NodeIdx : Range(built.nodes[m].dependents) \subseteq NodeSlugs

\* a returned graph with a dependent, a dependency on a missing exercise and
\* a node that nothing depends on
C5_Witness ==
    /\ built.status = "returned"
    /\ \E m \in NodeIdx : built.nodes[m].dependents # <<>>
    /\ \E n \in NodeIdx : MissingSlug \in Range(built.nodes[n].dependencies)
    /\ \E k \in NodeIdx : built.nodes[k].dependents = <<>>

\* C6: a node with an empty dependency list is placed at the exercise's own
\* position, or at (0,0) when it has none, whatever the other nodes are.
C6_RootAtOwnPosition ==
    built.status = "returned" =>
        \A i \in NodeIdx :
            Len(built.nodes[i].dependencies) = 0 =>
                built.nodes[i].position = OwnOffset(i, Pt(0, 0))

\* a returned graph with a root without position, a root with one, and a
\* node that depends on a root
C6_Witness ==
    /\ built.status = "returned"
    /\ \E i \in NodeIdx :
          /\ Len(built.nodes[i].dependencies) = 0
          /\ exercises[i].position = Undefined
          /\ built.nodes[i].position = Pt(0, 0)
    /\ \E i \in NodeIdx :
          /\ Len(built.nodes[i].dependencies) = 0
          /\ exercises[i].position = Some(Pt(-20, 0))
          /\ built.nodes[i].position = Pt(-20, 0)
    /\ \E i \in NodeIdx : ResolvableDeps(i) # {}

(***************************************************************************)
(* Properties of the drag propagation                                      *)
(***************************************************************************)
CurIdx == 1..Len(currentNodes)
CurSlug(i) == currentNodes[i].exercise.slug

\* nodes that depend directly on one of the nodes of S
DependOn(S) ==
    {j \in CurIdx : \E i \in S : CurSlug(i) \in Range(currentNodes[j].dependencies)}

\* nodes reachable from the frontier by one or more "depends on me" edges
RECURSIVE DependentsClosure(_, _)
DependentsClosure(frontier, seen) ==
    IF DependOn(frontier) \subseteq seen THEN seen
    ELSE DependentsClosure(DependOn(frontier) \ seen, seen \cup DependOn(frontier))

TransitiveDependents(i) == DependentsClosure({i}, {})

\* the dragged node, when the last drag named a node of the array
DraggedIdx == {i \in CurIdx : CurSlug(i) = dragged.draggedNodeSlug}

DragReturnedFor(i) == dragged.status = "returned" /\ i \in DraggedIdx

Shifted(p, from, to) == Pt(p.x + (to.x - from.x), p.y + (to.y - from.y))

\* C3: the map gives the dragged node N exactly P and every transitive
\* dependent D its current position shifted by P - currentPosition(N).
C3_DragCoherence ==
    \A n \in CurIdx :
        DragReturnedFor(n) =>
            /\ dragged.newPositions[CurSlug(n)] = dragged.newPosition
            /\ \A d \in TransitiveDependents(n) :
                  /\ CurSlug(d) \in DOMAIN dragged.newPositions
                  /\ dragged.newPositions[CurSlug(d)] =
                        Shifted(currentNodes[d].position,
                                currentNodes[n].position, dragged.newPosition)

\* a drag by a non-zero vector of a node with a direct and an indirect
\* dependent that stand at different positions
C3_Witness ==
    \E n \in CurIdx :
        /\ DragReturnedFor(n)
        /\ dragged.newPosition # currentNodes[n].position
        /\ Cardinality(TransitiveDependents(n) \ {n}) = 2
        /\ \E d \in TransitiveDependents(n) :
              /\ d \notin DependOn({n})
              /\ currentNodes[d].position # currentNodes[n].position

\* C4: the drag computation returns normally on every node graph, cyclic
\* ones included, and expands each slug at most once.
C4_DragTerminates ==
    /\ dragged.status # "RangeError"
    /\ \A n \in CurIdx :
          DragReturnedFor(n) =>
              dragged.calls <= Cardinality({n} \cup TransitiveDependents(n))

\* a drag of a node that lies on a dependency cycle through another node
C4_Witness ==
    \E n \in CurIdx :
        /\ DragReturnedFor(n)
        /\ n \in TransitiveDependents(n)
        /\ n \notin DependOn({n})
        /\ dragged.calls = Cardinality(TransitiveDependents(n))

\* nodes on which node i depends, directly or not
DependenciesOfSet(S) ==
    {j \in CurIdx : \E i \in S : CurSlug(j) \in Range(currentNodes[i].dependencies)}

RECURSIVE DependenciesClosure(_, _)
DependenciesClosure(frontier, seen) ==
    IF DependenciesOfSet(frontier) \subseteq seen THEN seen
    ELSE DependenciesClosure(DependenciesOfSet(frontier) \ seen,
                             seen \cup DependenciesOfSet(frontier))

TransitiveDependencies(i) == DependenciesClosure({i}, {})

C7_Keys ==
    \A n \in CurIdx :
        DragReturnedFor(n) =>
            /\ DOMAIN dragged.newPositions =
                  {CurSlug(n)} \cup {CurSlug(d) : d \in TransitiveDependents(n)}
            /\ \A a \in TransitiveDependencies(n) \ ({n} \cup TransitiveDependents(n)) :
                  CurSlug(a) \notin DOMAIN dragged.newPositions

\* C7: the keys of the returned map are exactly the dragged slug and the
\* slugs of its transitive dependents (no mere ancestor, no unrelated node),
\* and the call leaves the node array as it was.
C7_KeySetAndFrame == [](C7_Keys) /\ [][currentNodes' = currentNodes]_vars

\* a drag of a node that has an ancestor and a dependent
C7_Witness ==
    \E n \in CurIdx :
        /\ DragReturnedFor(n)
        /\ TransitiveDependents(n) # {}
        /\ TransitiveDependencies(n) \ ({n} \cup TransitiveDependents(n)) # {}
        /\ Cardinality(DOMAIN dragged.newPositions) = 2

(***************************************************************************)
(* Properties of the position overlay                                      *)
(***************************************************************************)
\* the positions the component renders
RenderedPositions ==
    LET shown == nodesWithCustomPositions(built.nodes, customPositions,
                                          settings.isDragModeEnabled)
    IN  [i \in 1..Len(shown) |-> shown[i].position]

\* the positions the layout resolver computed
ResolvedPositions == [i \in 1..Len(built.nodes) |-> built.nodes[i].position]

DisabledRendersResolved ==
    ~settings.isDragModeEnabled => RenderedPositions = ResolvedPositions

\* a settings change that leaves drag mode disabled empties the overlay
DisablingEmptiesOverlay ==
    (\E newSettings \in SettingsInputs :
        ~newSettings.isDragModeEnabled /\ handleSettingsChange(newSettings))
    => customPositions' = EmptyRecord

\* a node drag while drag mode is disabled changes nothing
DisabledDragIsNoOp ==
    (~settings.isDragModeEnabled /\ NodeDrag) => UNCHANGED vars

\* from a disabled state with an empty overlay every step, the one that
\* enables drag mode included, leads to resolver-computed positions
ReenableStartsResolved ==
    (~settings.isDragModeEnabled /\ customPositions = EmptyRecord)
    => (customPositions' = EmptyRecord /\ RenderedPositions' = ResolvedPositions')

\* C8: a settings change with drag mode off empties the overlay; while drag
\* mode is off every node is rendered at its resolver-computed position and
\* a node drag changes nothing; drag mode re-enabled after that starts from
\* the resolver-computed positions.
C8_OverlayClearedWhenDragModeOff ==
    /\ [](DisabledRendersResolved)
    /\ [][DisablingEmptiesOverlay /\ DisabledDragIsNoOp /\ ReenableStartsResolved]_vars

\* drag mode is on again with an empty overlay after nodes had been dragged:
\* the resolver placed a dependent away from the origin and it is rendered there
C8_Witness ==
    /\ settings.isDragModeEnabled
    /\ settings.showApiMonitor
    /\ customPositions = EmptyRecord
    /\ \E i \in 1..Len(built.nodes) :
          /\ built.nodes[i].position # Origin
          /\ RenderedPositions[i] = built.nodes[i].position

(***************************************************************************)
(* Properties of the routing                                               *)
(***************************************************************************)
StartPoint == Pt(routeInput.from.x, routeInput.from.y + routeInput.nodeRadius)
EndPoint == Pt(routeInput.to.x, routeInput.to.y - routeInput.nodeRadius)
SpanX == EndPoint.x - StartPoint.x
SpanY == EndPoint.y - StartPoint.y

\* the L-route that bends after down/10 of the way when the end point lies
\* below the start point, and after across/10 of the way otherwise
BendRoute(down, across) ==
    IF SpanY > 0
    THEN <<StartPoint,
           Pt(StartPoint.x, StartPoint.y + (down * SpanY) \div 10),
           Pt(EndPoint.x, StartPoint.y + (down * SpanY) \div 10),
           EndPoint>>
    ELSE <<StartPoint,
           Pt(StartPoint.x + (across * SpanX) \div 10, StartPoint.y),
           Pt(StartPoint.x + (across * SpanX) \div 10, EndPoint.y),
           EndPoint>>

\* the candidates in their priority order: direct, horizontal-first,
\* vertical-first, alternate
Candidates ==
    <<BendRoute(6, 5),
      <<StartPoint, Pt(EndPoint.x, StartPoint.y), EndPoint>>,
      <<StartPoint, Pt(StartPoint.x, EndPoint.y), EndPoint>>,
      BendRoute(3, 7)>>

\* what the collision test reports for a candidate
ReportedBlocked(k) ==
    pathIntersectsObstacles(Candidates[k], routeInput.obstacles, Clearance)

\* C9: the router returns the first candidate, in the fixed order, that the
\* collision test reports as not blocked; the direct route when all are
\* reported blocked or when there is no obstacle; never an empty path.
C9_FirstFreeCandidate ==
    routed.status = "returned" =>
        /\ routed.path # <<>>
        /\ routeInput.obstacles = <<>> => routed.path = Candidates[1]
        /\ \A k \in 1..4 :
              (~ReportedBlocked(k) /\ \A l \in 1..(k - 1) : ReportedBlocked(l))
                  => routed.path = Candidates[k]
        /\ (\A k \in 1..4 : ReportedBlocked(k)) => routed.path = Candidates[1]

\* the direct route is blocked, horizontal-first and vertical-first are both
\* free and differ, and horizontal-first is returned
C9_Witness ==
    /\ routed.status = "returned"
    /\ ReportedBlocked(1) /\ ~ReportedBlocked(2) /\ ~ReportedBlocked(3)
    /\ Candidates[2] # Candidates[3]
    /\ routed.path = Candidates[2]

\* the segment from p to q has a point within distance reach of the centre
\* of the circle (the distance from the centre to its nearest point of the
\* segment, compared in squares)
SegmentWithin(p, q, circle, reach) ==
    LET dx == q.x - p.x
        dy == q.y - p.y
        fx == p.x - circle.x
        fy == p.y - circle.y
        len2 == dx * dx + dy * dy
        along == fx * dx + fy * dy
    IN  IF len2 = 0 \/ along >= 0 THEN fx * fx + fy * fy <= reach * reach
        ELSE IF -along >= len2
        THEN (fx + dx) * (fx + dx) + (fy + dy) * (fy + dy) <= reach * reach
        ELSE len2 * (fx * fx + fy * fy) - along * along <= len2 * reach * reach

\* some segment of the path comes within radius + 15 of some obstacle centre
PassesInflatedObstacle(path) ==
    \E i \in 1..(Len(path) - 1) :
        \E o \in 1..Len(routeInput.obstacles) :
            SegmentWithin(path[i], path[i + 1], routeInput.obstacles[o],
                          routeInput.obstacles[o].radius + 15)

\* C10: the collision test reports a path as blocked exactly when one of its
\* segments has a point within radius + 15 of an obstacle centre (a segment
\* wholly inside the inflated circle and a zero-length segment included), so
\* a route returned as collision-free never passes inside an inflated obstacle.
C10_CollisionTestIsExact ==
    routed.status = "returned" =>
        /\ \A k \in 1..4 : ReportedBlocked(k) <=> PassesInflatedObstacle(Candidates[k])
        /\ ~pathIntersectsObstacles(routed.path, routeInput.obstacles, Clearance)
              => ~PassesInflatedObstacle(routed.path)

\* C11: every returned polyline has at least two points, starts exactly at
\* (from.x, from.y + nodeRadius) and ends exactly at (to.x, to.y - nodeRadius),
\* whichever strategy was selected and whatever the obstacles are.
C11_RouteAnchored ==
    routed.status = "returned" =>
        /\ Len(routed.path) >= 2
        /\ routed.path[1] = Pt(routeInput.from.x, routeInput.from.y + routeInput.nodeRadius)
        /\ routed.path[Len(routed.path)] =
              Pt(routeInput.to.x, routeInput.to.y - routeInput.nodeRadius)

\* a detour (not the direct route) was selected around a non-empty obstacle
\* list, with a radius other than the default
C11_Witness ==
    /\ routed.status = "returned"
    /\ routeInput.obstacles # <<>>
    /\ routeInput.nodeRadius # DefaultNodeRadius
    /\ routed.path # Candidates[1]
    /\ Len(routed.path) = 3

\* the two end points of a segment share the x or the y coordinate
AxisAligned(p, q) == p.x = q.x \/ p.y = q.y

\* C20: every segment of every returned polyline is axis-aligned, for every
\* routing strategy and for the fallback path.
C20_SegmentsAxisAligned ==
    routed.status = "returned" =>
        \A i \in 1..(Len(routed.path) - 1) :
            AxisAligned(routed.path[i], routed.path[i + 1])

\* the fallback: every candidate is reported blocked, the direct route is
\* returned and it really turns twice (source and target differ in x and y)
C20_Witness ==
    /\ routed.status = "returned"
    /\ \A k \in 1..4 : ReportedBlocked(k)
    /\ Len(routed.path) = 4
    /\ SpanX # 0 /\ SpanY # 0
    /\ routed.path[2] # routed.path[3]

(***************************************************************************)
(* Further properties of the build                                         *)
(***************************************************************************)
\* C14: a second run of createSkillTreeData on the same exercises and paths
\* (the objects as the first run left them) ends as the first did and yields
\* the same position, dependencies and dependents for every node.
C14_BuildIdempotent ==
    rebuilt.status # "pending" =>
        /\ rebuilt.status = built.status
        /\ Len(rebuilt.nodes) = Len(built.nodes)
        /\ \A i \in NodeIdx :
              /\ rebuilt.nodes[i].position = built.nodes[i].position
              /\ rebuilt.nodes[i].dependencies = built.nodes[i].dependencies
              /\ rebuilt.nodes[i].dependents = built.nodes[i].dependents

\* both runs returned, and some node with a dependency was placed away from
\* the value of its own position field
C14_Witness ==
    /\ rebuilt.status = "returned"
    /\ \E i \in NodeIdx :
          /\ ResolvableDeps(i) # {}
          /\ exercises[i].position # Undefined
          /\ built.nodes[i].position # ValueOf(exercises[i].position)
          /\ built.nodes[i].dependents # <<>>

\* the input with every dependency slug that names no exercise removed
WithoutMissingSlugs(exs) ==
    [i \in 1..Len(exs) |->
        [exs[i] EXCEPT !.dependencies =
            IF @ = Undefined THEN Undefined
            ELSE Some(SelectSeq(ValueOf(@),
                    LAMBDA d : \E j \in 1..Len(exs) : exs[j].slug = d))]]

\* dependency entries, over all nodes, that name node m
EntriesNaming(m) ==
    {e \in UNION {{<<n, k>> : k \in 1..Len(built.nodes[n].dependencies)} : n \in NodeIdx} :
        built.nodes[e[1]].dependencies[e[2]] = SlugAt(m)}

\* C17: the build returns one node per exercise in input order; a dependency
\* slug that names no exercise never makes it fail (it ends as it does for
\* the input without such slugs), adds nothing to any dependents list, and
\* is never the anchor: a dependent node sits at its own offset from the
\* origin or from a dependency that is a node.
C17_MissingDependencySkipped ==
    /\ built.status # "pending" =>
          built.status = createSkillTreeData(WithoutMissingSlugs(exercises), paths).status
    /\ built.status = "returned" =>
          /\ Len(built.nodes) = Len(Slugs)
          /\ \A i \in NodeIdx : SlugAt(i) = Slugs[i]
          /\ \A m \in NodeIdx :
                Len(built.nodes[m].dependents) = Cardinality(EntriesNaming(m))
          /\ \A i \in NodeIdx :
                Len(built.nodes[i].dependencies) > 0 =>
                    \E anchor \in {Origin} \cup
                                  {built.nodes[j].position : j \in ResolvableDeps(i)} :
                        built.nodes[i].position =
                            Pt(anchor.x + OwnOffset(i, Pt(0, 50)).x,
                               anchor.y + OwnOffset(i, Pt(0, 50)).y)

\* a returned graph where one node lists a missing slug next to a dependency
\* that is a node placed away from the origin, and is anchored on that node
C17_Witness ==
    /\ built.status = "returned"
    /\ \E i \in NodeIdx :
          /\ MissingSlug \in Range(built.nodes[i].dependencies)
          /\ \E j \in ResolvableDeps(i) :
                /\ built.nodes[j].position # Origin
                /\ built.nodes[i].position =
                      Pt(built.nodes[j].position.x + OwnOffset(i, Pt(0, 50)).x,
                         built.nodes[j].position.y + OwnOffset(i, Pt(0, 50)).y)

\* C15: calculateDraggedPositions returns an empty map, without failing,
\* when the dragged slug matches no node of the node list.
C15_UnknownSlugIsNoOp ==
    (dragged.status # "pending" /\ DraggedIdx = {}) =>
        /\ dragged.status = "returned"
        /\ DOMAIN dragged.newPositions = {}

\* the dragged slug names no node although a node lists it as a dependency
C15_Witness ==
    /\ dragged.status = "returned"
    /\ dragged.draggedNodeSlug = MissingSlug
    /\ \E i \in CurIdx : MissingSlug \in Range(currentNodes[i].dependencies)
    /\ dragged.newPositions = EmptyRecord

\* C16: a node's path is a Path of the list whose slug is the exercise's
\* pathSlug when there is one; otherwise (pathSlug absent or unmatched) the
\* first Path of the list; a synthesized Path when the list is empty.  The
\* build never fails because of a path reference.
C16_PathResolved ==
    built.status # "pending" =>
        /\ built.status = "returned"
        /\ Len(built.nodes) = Len(exercises)
        /\ \A i \in NodeIdx :
              LET ref == exercises[i].pathSlug
                  matching == {k \in 1..Len(paths) :
                                ref # Undefined /\ paths[k].slug = ValueOf(ref)}
              IN  /\ matching # {} =>
                        \E k \in matching : built.nodes[i].path = paths[k]
                  /\ (matching = {} /\ paths # <<>>) => built.nodes[i].path = paths[1]
                  /\ paths = <<>> =>
                        /\ DOMAIN built.nodes[i].path =
                              {"slug", "name", "description", "color"}
                        /\ built.nodes[i].path.slug = "default"

\* two paths; one exercise names the second, one names no path and one has
\* no pathSlug, the latter two get the first path
C16_Witness ==
    /\ built.status = "returned"
    /\ Len(paths) = 2 /\ paths[1].slug # paths[2].slug
    /\ \E i \in NodeIdx :
          /\ exercises[i].pathSlug = Some(paths[2].slug)
          /\ built.nodes[i].path = paths[2]
    /\ \E i \in NodeIdx :
          /\ exercises[i].pathSlug = Some("z")
          /\ built.nodes[i].path = paths[1]
    /\ \E i \in NodeIdx :
          /\ exercises[i].pathSlug = Undefined
          /\ built.nodes[i].path = paths[1]

(***************************************************************************)
(* Properties of the visibility                                            *)
(***************************************************************************)
\* the search term has a character that is not white space
TermNonBlank ==
    searchTerm # Undefined /\ \E k \in 1..Len(ValueOf(searchTerm)) : ValueOf(searchTerm)[k] # " "

\* the text occurs in a searchable field of the exercise or its path, case
\* ignored
OccursInFields(text) ==
    \E field \in {exercises[1].name, exercises[1].description, exercises[1].status,
                  exercises[1].slug, paths[1].name, paths[1].description}
                 \cup Range(exercises[1].difficulty)
                 \cup Range(ListOf(exercises[1].products))
                 \cup Range(ListOf(exercises[1].dependencies)) :
        \E from \in 1..Len(Spell(field)) :
            /\ from + Len(text) - 1 <= Len(Spell(field))
            /\ \A k \in 1..Len(text) :
                  ToLowerChar(Spell(field)[from + k - 1]) = ToLowerChar(text[k])

\* C18: with a non-blank search term the visibility is 1 for an exercise
\* that matches the term and 0.15 for one that does not, whatever the filter
\* state is; an empty or white-space term is treated as no search term.
C18_SearchOverridesFilters ==
    visible.status = "returned" =>
        /\ TermNonBlank =>
              /\ visible.visibility =
                    (IF OccursInFields(ValueOf(searchTerm)) THEN 1000 ELSE 150)
              /\ \A f \in FilterInputs :
                    calculateExerciseVisibility(exercises[1], paths[1], f, searchTerm)
                        = visible.visibility
        /\ ~TermNonBlank =>
              visible.visibility =
                  calculateExerciseVisibility(exercises[1], paths[1], filters, Undefined)

\* a search that misses an exercise that passes every filter, under a status
\* filter that is set
C18_Witness ==
    /\ visible.status = "returned"
    /\ TermNonBlank
    /\ visible.visibility = 150
    /\ filters.statuses # <<>> /\ filters.paths # <<>>
    /\ calculateExerciseVisibility(exercises[1], paths[1], filters, Undefined) = 1000

\* the exercise's status equals, case ignored, an entry of the status filter
StatusListed ==
    \E k \in 1..Len(filters.statuses) :
        LET entry == Spell(filters.statuses[k])
            status == Spell(exercises[1].status)
        IN  /\ Len(entry) = Len(status)
            /\ \A c \in 1..Len(entry) : ToLowerChar(entry[c]) = ToLowerChar(status[c])

\* the non-empty filters among path, product, difficulty, and those of them
\* the exercise e matches
SetFilters == {cat \in {"paths", "products", "difficulties"} : filters[cat] # <<>>}

MatchedFilters(e) ==
    {cat \in SetFilters :
        \/ cat = "paths" /\ Range(e.pathSlug) \cap Range(filters.paths) # {}
        \/ cat = "products"
              /\ Range(ListOf(e.products)) \cap Range(filters.products) # {}
        \/ cat = "difficulties"
              /\ Range(e.difficulty) \cap Range(filters.difficulties) # {}}

\* C19: without a search term the visibility is 0.25 when a non-empty status
\* filter lists no status equal (case ignored) to the exercise's; otherwise
\* 1 when none of path, product, difficulty is set and 0.25 + 0.75 * k / n
\* when n of them are set and k matched.  It lies in [0.25, 1], is never 0,
\* and does not decrease when more filters match.
C19_FilterVisibility ==
    (visible.status = "returned" /\ ~TermNonBlank) =>
        LET n == Cardinality(SetFilters)
            k == Cardinality(MatchedFilters(exercises[1]))
            miss == filters.statuses # <<>> /\ ~StatusListed
        IN  /\ miss => visible.visibility = 250
            /\ (~miss /\ n = 0) => visible.visibility = 1000
            /\ (~miss /\ n > 0) => n * (visible.visibility - 250) = 750 * k
            /\ visible.visibility >= 250 /\ visible.visibility <= 1000
            /\ ~miss =>
                  \A e \in VisExercises :
                      (e.status = exercises[1].status
                       /\ Cardinality(MatchedFilters(e)) >= k)
                          => calculateExerciseVisibility(e, paths[1], filters, searchTerm)
                                >= visible.visibility

\* three filters set, two of them matched, under the default status filter
\* that lists the exercise's status in another case
C19_Witness ==
    /\ visible.status = "returned"
    /\ ~TermNonBlank
    /\ filters.statuses = <<"Active">> /\ exercises[1].status = "active"
    /\ Cardinality(SetFilters) = 3
    /\ Cardinality(MatchedFilters(exercises[1])) = 2
    /\ visible.visibility = 750

(***************************************************************************)
(* Properties of the rendered connectors                                   *)
(***************************************************************************)
\* indexes of the nodes that are neither end of the connector
OtherNodes(nodes, edge) ==
    {i \in 1..Len(nodes) : nodes[i].exercise.slug \notin {edge.from, edge.to}}

\* dependency entries that name a node: <<node index, entry index>>
ResolvableEntries ==
    {e \in UNION {{<<n, k>> : k \in 1..Len(built.nodes[n].dependencies)} : n \in NodeIdx} :
        built.nodes[e[1]].dependencies[e[2]] \in NodeSlugs}

\* C12: every dependency entry that names a node is rendered as a connector,
\* and the obstacles of a connector dep -> node are the circles (radius 30,
\* at the rendered position, in node order) of exactly the nodes whose slug
\* is neither dep's nor node's.
C12_ObstaclesExcludeEndpoints ==
    LET nodes == NodesWithVisibility
        rendered == SkillPaths(nodes, 1)
    IN  /\ Len(rendered) = Cardinality(ResolvableEntries)
        /\ \A e \in 1..Len(rendered) :
              LET others == OtherNodes(nodes, rendered[e])
              IN  /\ Len(rendered[e].obstacles) = Cardinality(others)
                  /\ \A i \in others :
                        rendered[e].obstacles[Cardinality({j \in others : j <= i})] =
                            [x |-> nodes[i].position.x, y |-> nodes[i].position.y,
                             radius |-> 30]

\* drag mode is on, and a connector between two different nodes has the
\* third node as its only obstacle, at the position of the source node
C12_Witness ==
    LET nodes == NodesWithVisibility
        rendered == SkillPaths(nodes, 1)
    IN  /\ settings.isDragModeEnabled /\ customPositions # EmptyRecord
        /\ \E e \in 1..Len(rendered) :
              /\ rendered[e].from # rendered[e].to
              /\ Len(rendered[e].obstacles) = 1
              /\ \E i \in 1..Len(nodes) :
                    /\ nodes[i].exercise.slug = rendered[e].from
                    /\ nodes[i].position.x = rendered[e].obstacles[1].x
                    /\ nodes[i].position.y = rendered[e].obstacles[1].y

\* C13: the connectors (obstacles and routed points) of a render depend on
\* the node positions only: under every other filter state and search term
\* the same positions give the same connectors.
C13_RoutingIgnoresVisibility ==
    LET positioned == nodesWithCustomPositions(built.nodes, customPositions,
                                               settings.isDragModeEnabled)
        rendered == SkillPaths(applyVisibilityToNodes(positioned, filters, searchTerm), 1)
    IN  \A f \in AppFilterInputs, t \in AppSearchTerms :
            SkillPaths(applyVisibilityToNodes(positioned, f, t), 1) = rendered

\* the filter state and the search term were changed, and a node that is an
\* obstacle of a connector routed around it is dimmed otherwise than under
\* the default filters without search
C13_Witness ==
    LET nodes == NodesWithVisibility
        rendered == SkillPaths(nodes, 1)
    IN  /\ filters # DefaultFilters /\ searchTerm # Some(<<>>)
        /\ \E e \in 1..Len(rendered) :
              /\ Len(rendered[e].points) = 3
              /\ \E i \in OtherNodes(nodes, rendered[e]) :
                    /\ nodes[i].visibility < 1000
                    /\ calculateExerciseVisibility(nodes[i].exercise, nodes[i].path,
                                                    DefaultFilters, Some(<<>>))
                          # nodes[i].visibility

(***************************************************************************)
(* Properties of the transitive closure of dependents                      *)
(***************************************************************************)
\* nodes named by the dependents lists of the nodes of S
ListedDependents(S) ==
    {j \in CurIdx : \E i \in S : CurSlug(j) \in Range(currentNodes[i].dependents)}

\* nodes reachable from the frontier by one or more dependents-list entries
RECURSIVE ListedClosure(_, _)
ListedClosure(frontier, seen) ==
    IF ListedDependents(frontier) \subseteq seen THEN seen
    ELSE ListedClosure(ListedDependents(frontier) \ seen,
                       seen \cup ListedDependents(frontier))

\* a path of one or more dependency edges leads from node i back to node i
OnDependencyCycle(i) == i \in TransitiveDependencies(i)

\* C21: the slugs returned by getAllTransitiveDependents for a start node are
\* exactly the slugs of the nodes reachable from it by one or more "depends
\* on me" edges; the start is among them exactly when it lies on a
\* dependency cycle; following the dependents lists gives the same set.
C21_ClosureIsReachability ==
    \A n \in CurIdx :
        DragReturnedFor(n) =>
            LET returned == Range(dragged.dependentSlugs)
            IN  /\ returned = {CurSlug(d) : d \in TransitiveDependents(n)}
                /\ (CurSlug(n) \in returned) <=> OnDependencyCycle(n)
                /\ returned = {CurSlug(d) : d \in ListedClosure({n}, {})}

\* a diamond: two direct dependents of the start share a dependent that is
\* not a direct dependent of the start, and the start is on no cycle
C21_Witness ==
    \E n \in CurIdx :
        /\ DragReturnedFor(n)
        /\ Cardinality(DependOn({n})) = 2
        /\ \E d \in CurIdx \ ({n} \cup DependOn({n})) :
              \A b \in DependOn({n}) : d \in DependOn({b})
        /\ Cardinality(Range(dragged.dependentSlugs)) = 3
        /\ ~OnDependencyCycle(n)

(***************************************************************************)
(* Properties of successive drags in the component                         *)
(***************************************************************************)
\* built nodes that depend directly on one of the nodes of S
BuiltDependOn(S) ==
    {j \in NodeIdx : \E i \in S : SlugAt(i) \in Range(built.nodes[j].dependencies)}

RECURSIVE BuiltDependentsClosure(_, _)
BuiltDependentsClosure(frontier, seen) ==
    IF BuiltDependOn(frontier) \subseteq seen THEN seen
    ELSE BuiltDependentsClosure(BuiltDependOn(frontier) \ seen,
                                seen \cup BuiltDependOn(frontier))

\* the dragged node and its transitive dependents
DragClosure(n) == {n} \cup BuiltDependentsClosure({n}, {})

\* the step is a drag of node n to newPosition: every node of the closure
\* moves by newPosition - rendered(n), every other node stays, and the
\* overlay entries of the nodes outside the closure are as before
MovesClosureOnly(n, newPosition) ==
    LET before == RenderedPositions
        after == RenderedPositions'
        moved == DragClosure(n)
    IN  /\ \A d \in moved : after[d] = Shifted(before[d], before[n], newPosition)
        /\ \A o \in NodeIdx \ moved :
              /\ after[o] = before[o]
              /\ (SlugAt(o) \in DOMAIN customPositions') =
                    (SlugAt(o) \in DOMAIN customPositions)
              /\ SlugAt(o) \in DOMAIN customPositions =>
                    customPositions'[SlugAt(o)] = customPositions[SlugAt(o)]

DragStepMovesClosure ==
    \A n \in NodeIdx, newPosition \in DragTargets :
        (settings.isDragModeEnabled /\ handleNodeDrag(SlugAt(n), newPosition))
        => MovesClosureOnly(n, newPosition)

\* C22: in drag mode every drag of a node moves the rendered positions of
\* the node and of its transitive dependents by one common vector, measured
\* from their rendered positions just before the drag, leaves every other
\* rendered position unchanged and keeps the overlay entries of the nodes
\* outside the closure.
C22_DragMovesClosureByOneVector == [][DragStepMovesClosure]_vars

\* two nodes, neither a dependent of the other, have both been dragged and a
\* third node has not: the entry of the first drag survived the second,
\* and the two dragged nodes are no longer arranged as the resolver put them
C22_Witness ==
    /\ settings.isDragModeEnabled
    /\ \E b, c, a \in NodeIdx :
          /\ b # c /\ a \notin {b, c}
          /\ c \notin DragClosure(b) /\ b \notin DragClosure(c)
          /\ DOMAIN customPositions = {SlugAt(b), SlugAt(c)}
          /\ customPositions[SlugAt(b)] \in DragTargets
          /\ customPositions[SlugAt(c)] \in DragTargets
          /\ customPositions[SlugAt(b)] # customPositions[SlugAt(c)]
          /\ {b, c} \subseteq DragClosure(a)

(***************************************************************************)
(* Properties of the anchor choice                                         *)
(***************************************************************************)
\* the entries of node i's dependency list that name a node
ResolvableEntriesOf(i) ==
    {k \in 1..Len(built.nodes[i].dependencies) :
        FindIndex(built.nodes, built.nodes[i].dependencies[k]) # 0}

\* the node named by the k-th entry of node i's dependency list
DepNodeAt(i, k) == FindIndex(built.nodes, built.nodes[i].dependencies[k])

\* the entries whose node has the maximal x + y among the resolvable ones
MaximalEntries(i) ==
    {k \in ResolvableEntriesOf(i) :
        \A l \in ResolvableEntriesOf(i) :
            PosSum(built.nodes[DepNodeAt(i, k)].position) >=
                PosSum(built.nodes[DepNodeAt(i, l)].position)}

\* the first entry of a non-empty set of entries
FirstEntry(entries) == CHOOSE k \in entries : \A l \in entries : k <= l

\* several distinct dependencies of node i share the maximal x + y
TiedAtMaximum(i) ==
    Cardinality({DepNodeAt(i, k) : k \in MaximalEntries(i)}) >= 2

\* C23: when several resolvable dependencies of a node share the maximal
\* x + y, the node is placed relative to the one of them that comes first in
\* its dependency list.
C23_FirstOfTiedIsAnchor ==
    built.status = "returned" =>
        \A i \in NodeIdx :
            TiedAtMaximum(i) =>
                LET anchor == built.nodes[DepNodeAt(i, FirstEntry(MaximalEntries(i)))].position
                    offset == OwnOffset(i, Pt(0, 50))
                IN  built.nodes[i].position = Pt(anchor.x + offset.x, anchor.y + offset.y)

(***************************************************************************)
(* Properties of the direct path                                           *)
(***************************************************************************)
\* the router returns the direct path: there is no obstacle, the direct path
\* is reported free, or every candidate is reported blocked
DirectPathReturned ==
    /\ routed.status = "returned"
    /\ \/ routeInput.obstacles = <<>>
       \/ ~ReportedBlocked(1)
       \/ \A k \in 1..4 : ReportedBlocked(k)

\* C24: with dx and dy measured between the anchor points, the direct path is
\* start, (start.x, start.y + 0.6 dy), (end.x, start.y + 0.6 dy), end when
\* dy > 0 and start, (start.x + 0.5 dx, start.y), (start.x + 0.5 dx, end.y),
\* end otherwise; dy = 0 takes the second form.
C24_DirectPathShape ==
    DirectPathReturned =>
        LET start == StartPoint
            end == EndPoint
            dx == end.x - start.x
            dy == end.y - start.y
            midY == start.y + (6 * dy) \div 10
            midX == start.x + (5 * dx) \div 10
        IN  /\ (6 * dy) % 10 = 0 /\ (5 * dx) % 10 = 0
            /\ dy > 0 => routed.path = <<start, Pt(start.x, midY), Pt(end.x, midY), end>>
            /\ dy <= 0 => routed.path = <<start, Pt(midX, start.y), Pt(midX, end.y), end>>

\* the target centre lies below the source centre but the anchor points are
\* level: the direct path is returned and goes across first
C24_Witness ==
    /\ DirectPathReturned
    /\ routeInput.to.y > routeInput.from.y
    /\ EndPoint.y = StartPoint.y
    /\ EndPoint.x # StartPoint.x
    /\ routed.path[2] = Pt(StartPoint.x + (EndPoint.x - StartPoint.x) \div 2, StartPoint.y)
    /\ routed.path[2] # StartPoint

(***************************************************************************)
(* Properties of nodes whose dependencies all name no exercise             *)
(***************************************************************************)
\* node i lists dependencies and none of them names a node
OnlyMissingDependencies(i) ==
    built.nodes[i].dependencies # <<>> /\ ResolvableDeps(i) = {}

\* C25: a node whose dependency list is non-empty but names no exercise of
\* the graph is placed at its own offset from the origin, (0,50) when the
\* exercise gives no position.
C25_UnresolvedDependentPlaced ==
    built.status = "returned" =>
        \A i \in NodeIdx :
            OnlyMissingDependencies(i) =>
                built.nodes[i].position = OwnOffset(i, Pt(0, 50))

\* a node without a position of its own that depends only on a missing
\* exercise lands on (0,50), beside a node with a position of its own that
\* does the same
C25_Witness ==
    /\ built.status = "returned"
    /\ \E i, j \in NodeIdx :
          /\ OnlyMissingDependencies(i)
          /\ exercises[i].position = Undefined
          /\ built.nodes[i].position = Pt(0, 50)
          /\ OnlyMissingDependencies(j)
          /\ exercises[j].position # Undefined
          /\ built.nodes[j].position = ValueOf(exercises[j].position)

(***************************************************************************)
(* Properties of the build under a reordering of the exercises             *)
(***************************************************************************)
\* index of the node of the given slug in the second build (0: none)
ReorderedIndex(slug) == FindIndex(rebuilt.nodes, slug)

\* C26: for an acyclic graph with unique slugs the position computed for
\* each slug is the same whatever the order of the exercises in the input.
C26_PositionsIgnoreInputOrder ==
    (built.status = "returned" /\ rebuilt.status # "pending") =>
        /\ rebuilt.status = "returned"
        /\ Len(rebuilt.nodes) = Len(built.nodes)
        /\ \A i \in NodeIdx :
              /\ ReorderedIndex(SlugAt(i)) # 0
              /\ rebuilt.nodes[ReorderedIndex(SlugAt(i))].position =
                    built.nodes[i].position

\* a node anchored on a dependency that stands away from the origin; the
\* dependency comes after the node in one order and before it in the other
C26_Witness ==
    /\ built.status = "returned"
    /\ rebuilt.status = "returned"
    /\ \E i \in NodeIdx :
          \E d \in ResolvableDeps(i) :
              /\ d > i
              /\ ReorderedIndex(SlugAt(d)) < ReorderedIndex(SlugAt(i))
              /\ PosSum(built.nodes[d].position) > 0
              /\ built.nodes[i].position =
                    Pt(built.nodes[d].position.x, built.nodes[d].position.y + 50)

(***************************************************************************)
(* Properties of the request queue                                         *)
(***************************************************************************)
Executing == {r \in RequestIds : fnState[r] = "executing"}

\* the functions were called in the order of the enqueue calls
StartedInEnqueueOrder ==
    /\ Len(started) <= Len(enqueued)
    /\ \A k \in 1..Len(started) : started[k] = enqueued[k]

\* C27: whatever the interleaving of the enqueue calls, at most one request
\* function is executing at any time, and the request functions are started
\* in the order in which they were enqueued.
C27_OneAtATimeInOrder ==
    /\ Cardinality(Executing) <= 1
    /\ StartedInEnqueueOrder

\* the function of the second request is executing after the first one has
\* settled, a third request waits in the queue, and the requests were not
\* enqueued in the order of their numbers
C27_Witness ==
    /\ Len(started) = 2
    /\ Executing = {started[2]}
    /\ promise[started[1]].state \in {"resolved", "rejected"}
    /\ Len(queue) = 1
    /\ enqueued[1] > enqueued[2]

Settled(r) == promise[r].state \in {"resolved", "rejected"}

\* a settled promise carries the outcome of its own request function
SettledWithOwnOutcome ==
    \A r \in RequestIds :
        Settled(r) =>
            /\ promise[r].of = r
            /\ r \in Range(started)
            /\ promise[r].state = "resolved" <=> fnState[r] = "fulfilled"
            /\ promise[r].state = "rejected" <=> fnState[r] = "rejected"

\* no request waits in the queue while isProcessing is false
NoneLeftWaiting == queue # <<>> => isProcessing

\* C28: provided every request function settles, every enqueued request is
\* eventually started and its promise settled with its own function's result
\* or error, after rejected requests too, and no request is left waiting in
\* the queue while isProcessing is false.
C28_EveryRequestSettles ==
    /\ [](SettledWithOwnOutcome /\ NoneLeftWaiting)
    /\ \A r \in RequestIds : (promise[r].state = "pending") ~> Settled(r)

\* the first request was rejected and the one enqueued behind it resolved;
\* the last request was enqueued after that loop had ended, so that its own
\* activation of processQueue called its function, which has fulfilled
C28_Witness ==
    /\ Len(enqueued) = MaxRequests
    /\ promise[enqueued[1]].state = "rejected"
    /\ promise[enqueued[2]].state = "resolved"
    /\ loops[enqueued[MaxRequests]] =
          [pc |-> "await", request |-> enqueued[MaxRequests], remaining |-> 0]
    /\ fnState[enqueued[MaxRequests]] = "fulfilled"
    /\ isProcessing /\ queue = <<>>

(***************************************************************************)
(* Properties of cachedFetch                                               *)
(***************************************************************************)
\* the key has an entry and now - timestamp <= ttl
Unexpired(key) ==
    /\ memCache[key] # Undefined
    /\ now - ValueOf(memCache[key]).timestamp <= ValueOf(memCache[key]).ttl

\* a call made while the key has an unexpired entry returns the stored value
\* and does not invoke the fetcher
HitReturnsStored ==
    \A c \in CallIds, key \in CacheKeyInputs, ttlMinutes \in TtlInputs :
        (CachedFetch(c, key, ttlMinutes) /\ Unexpired(key)) =>
            /\ fetchCalls'[c].state = "returned"
            /\ fetchCalls'[c].value = ValueOf(memCache[key]).data
            /\ fetchCalls'[c].invoked = 0
            /\ memCache' = memCache

\* a call made while the key has no unexpired entry invokes the fetcher, once
MissInvokesFetcher ==
    \A c \in CallIds, key \in CacheKeyInputs, ttlMinutes \in TtlInputs :
        (CachedFetch(c, key, ttlMinutes) /\ ~Unexpired(key)) =>
            /\ fetchCalls'[c].state = "fetching"
            /\ fetchCalls'[c].invoked = 1

\* a successful result is stored under the key and returned
SuccessIsStored ==
    \A c \in CallIds, result \in FetchResults :
        FetcherSettles(c, result) =>
            /\ fetchCalls'[c].state = "returned"
            /\ fetchCalls'[c].value = result
            /\ fetchCalls'[c].invoked = 1
            /\ memCache'[fetchCalls[c].key] # Undefined
            /\ ValueOf(memCache'[fetchCalls[c].key]).data = result
            /\ ValueOf(memCache'[fetchCalls[c].key]).timestamp = now

\* a failure of the fetcher is propagated and stores nothing
FailureIsNotStored ==
    \A c \in CallIds :
        FetcherSettles(c, FetchError) =>
            /\ fetchCalls'[c].state = "threw"
            /\ fetchCalls'[c].value = FetchError
            /\ memCache' = memCache

\* C29: cachedFetch returns the stored value without invoking the fetcher
\* while the key has an unexpired entry (now - timestamp <= ttl); on a miss
\* it invokes the fetcher once and stores a successful result; a failure of
\* the fetcher is propagated and nothing is stored, so that the next call
\* invokes the fetcher again.
C29_CacheFirst ==
    [][HitReturnsStored /\ MissInvokesFetcher /\ SuccessIsStored
            /\ FailureIsNotStored]_vars

(***************************************************************************)
(* Properties of the cleanup of the persistent cache                       *)
(***************************************************************************)
\* the stored keys that carry the cache prefix
PrefixedKeys(storage) == {key \in DOMAIN storage : startsWith(key, CACHE_PREFIX)}

\* the text is unparsable, of another cache version, or expired
Stale(text) ==
    \/ ParseThrows(text)
    \/ text.version # CACHE_VERSION
    \/ now - text.timestamp > text.ttl

StaleKeys == {key \in PrefixedKeys(localStorage) : Stale(localStorage[key])}

\* C30: cleanup removes exactly the prefixed entries that are expired, of
\* another cache version or unparsable, leaves every other stored key as it
\* was, and returns cleaned = the number of entries removed and remaining =
\* the number of prefixed entries still stored, never a negative number.
C30_CleanupCounts ==
    [][Cleanup =>
        /\ DOMAIN localStorage' = DOMAIN localStorage \ StaleKeys
        /\ \A key \in DOMAIN localStorage' : localStorage'[key] = localStorage[key]
        /\ cleanupResult'.cleaned = Cardinality(StaleKeys)
        /\ cleanupResult'.remaining = Cardinality(PrefixedKeys(localStorage'))
        /\ cleanupResult'.remaining >= 0]_vars

====
